---------------------------- MODULE Spec2Model ----------------------------
(***************************************************************************)
(* A model of the wplace backend's ingestion-and-distribution pipeline.    *)
(*                                                                         *)
(*   PixelQueue   src/backend/queue.go      (mutex + condition variable)   *)
(*   RateLimiter  src/unnamed/part_001      (ratelimiter.go)               *)
(*   Hub          src/backend/hub.go        (event loop and flush ticker)  *)
(*   Client       src/backend/client.go     (the two pumps of a socket)    *)
(*                                                                         *)
(* Every goroutine that calls into a component is a process with a         *)
(* program counter; a step of the model is what one goroutine does between *)
(* two points where another goroutine can observe or change shared state   *)
(* (taking a mutex, the critical section, releasing the mutex).            *)
(***************************************************************************)
EXTENDS Integers, Sequences, FiniteSets, TLC

(***************************************************************************)
(* Bounds of the model.                                                    *)
(***************************************************************************)
\* capacity handed to NewPixelQueue (10000 in main); scaled down
MaxSize == 2
\* largest batchSize a DequeueBatch caller passes (the hub passes 50)
MaxBatch == 2
\* number of Enqueue calls made in one behaviour
MaxEnq == 4

\* number of Allow calls made in one behaviour
MaxCalls == 4
\* number of times the clock is advanced in one behaviour
MaxClockSteps == 2

\* DequeueBatch(50) in processQueue; scaled down
BatchSize == 3
\* NewPixelQueue(10000) in main; scaled down
QueueSize == 4
\* number of ticks of the flush ticker in one behaviour
MaxTicks == 2
\* make(chan []PixelUpdate, 256) of h.broadcast; scaled down
BroadcastCap == 1
\* make(chan []PixelUpdate, 256) of client.send; scaled down
MailboxCap == 1
\* number of times one Client is received from h.register
MaxRegs == 2
\* number of requests the ingestion endpoint receives in one behaviour
MaxReqs == 3
\* number of WebSocket objects the consumer creates in one behaviour
MaxOpens == 3
\* number of messages the consumer receives from the backend in one behaviour
MaxFrames == 2

(***************************************************************************)
(* Program constants. Time is counted in seconds.                          *)
(***************************************************************************)
\* NewRateLimiter(5 * time.Second)
Cooldown == 5
\* time.NewTicker(5 * time.Minute)
CleanupInterval == 300
\* now.Sub(lastTime) > 10*time.Minute
Retention == 600
\* pongWait = 60 * time.Second
PongWait == 60
\* seconds that pass in one step of the clock of a connection
ReadStep == PongWait \div 3

\* config.canvasWidth, config.canvasHeight (index.ts:29-30)
CanvasWidth == 1000
CanvasHeight == 1000

\* the frontend sockets that connect to the consumer
FeSockets == {"f1", "f2"}

\* goroutines running handlePixelUpdate (one per HTTP request)
Handlers == {"h1", "h2"}

\* goroutines calling Enqueue (one per HTTP request) and DequeueBatch
Producers == {"p1", "p2"}
Consumers == {"c1", "c2"}

\* request handlers that reach Enqueue while the hub runs
Ingesters == {"p1"}

\* the WebSocket connections made in one behaviour (one Client each)
Conns == {"k1", "k2"}

\* goroutines calling Allow (one per HTTP request), and the identities
Allowers == {"a1", "a2"}
Users == {"u1", "u2"}

\* how far the clock moves in one step: just below the cooldown, the
\* remainder up to it, and the retention threshold
TimeSteps == {1, Cooldown - 1, Retention}

None == "none"

\* the zero value of a PixelUpdate local that holds no update
NoUpdate == [id |-> 0]

VARIABLES
    \* ---- PixelQueue (queue.go:10-15)
    maxSize,    \* q.maxSize: the capacity given to NewPixelQueue
    items,      \* q.items: the queued updates, head first
    qMu,        \* q.mu: the goroutine holding the mutex, or None
    notEmpty,   \* q.notEmpty: goroutines parked in Wait()
    \* ---- goroutines in Enqueue
    pcP,        \* position of each producer in Enqueue
    argP,       \* the update each producer passed
    errP,       \* the error the producer's call returns: "nil", "full"
    \* ---- goroutines in DequeueBatch
    pcC,        \* position of each consumer in DequeueBatch
    sizeC,      \* the batchSize each consumer passed
    batchC,     \* the batch the consumer's call returns
    \* ---- history (not program state)
    nextId,     \* number of Enqueue calls made so far
    enqOrder,   \* successfully enqueued updates, in the order of their appends
    batches,    \* the batches taken by DequeueBatch calls, in the order taken
    \* ---- RateLimiter (part_001:10-14)
    lastUpdate, \* rl.lastUpdate: identity -> time of its last accepted call
    rlMu,       \* rl.mu: the goroutine holding the lock, or None
    \* ---- time
    clock,      \* what timeNow() returns, in seconds since the start
    tick,       \* ticker.C of cleanup holds a tick (a channel of capacity 1)
    \* ---- goroutines in Allow
    pcA,        \* position of each caller in Allow
    userA,      \* the userID each caller passed
    nowA,       \* the caller's local now
    readA,      \* the caller's locals lastTime, exists
    \* ---- the cleanup goroutine
    pcS,        \* position of the cleanup goroutine
    \* ---- history (not program state)
    calls,      \* number of Allow calls made so far
    clockSteps, \* number of clock advances so far
    accepted,   \* per identity, the times of its accepted calls, in lock order
    rejects,    \* per identity, the calls denied since its last accepted call
    phase,      \* per identity: removed by a sweep, readmitted, then denied
    lastAllow,  \* the last Allow call that held rl.mu, and its result
    lastSweep,  \* the last sweep that removed an entry
    \* ---- Hub (hub.go:11-26)
    clients,    \* h.clients: the registered connections
    broadcast,  \* h.broadcast: the batches in the channel, oldest first
    buffer,     \* the local buffer of processQueue
    \* ---- Client (client.go:38-44) and its goroutines
    send,       \* client.send: the batches in the channel, oldest first
    closed,     \* client.send has been closed
    pcK,        \* handleWebSocket and readPump of each connection
    pcW,        \* writePump of each connection
    \* ---- history (not program state)
    ticks,      \* number of ticks of the flush ticker so far
    winStart,   \* the number of updates enqueued before the last tick
    sent,       \* the batches placed on h.broadcast, in the order placed
    got,        \* per connection, the batches put into its mailbox
    regs,       \* per connection, at each registration the batches got so far
    closeCalls, \* per connection, the number of close(client.send) executed
    noops,      \* the connections whose unregister message found them absent
    \* ---- the read deadline of each connection (client.go:55-60)
    left,       \* seconds until the read deadline of the socket
    \* ---- history (not program state)
    quiet,      \* seconds since the last inbound frame of any kind
    pongAge,    \* seconds since the last pong (or since readPump started)
    \* ---- goroutines in Server.handlePixelUpdate (server.go:185-246)
    pcH,        \* position of each request handler
    reqH,       \* the handler's local pixel
    nowH,       \* the now of the handler's Allow call, kept until the response
    \* ---- history (not program state)
    log,        \* per request, in the order received, what its handler did
    \* ---- the process (clean.sh:26-77)
    exited,     \* the process has ended: no goroutine takes another step
    \* ---- the consumer process: BackendClient (backendClient.ts:13-18)
    socks,      \* the state of each WebSocket object the client has created
    socket,     \* this.socket: the number of a WebSocket object, or 0 for null
    shouldReconnect, \* this.shouldReconnect
    timers,     \* the reconnect timers set by setTimeout and not yet fired
    \* ---- the consumer process: Broadcaster (broadcaster.ts:14-21)
    feClients,  \* this.clients, in insertion order
    fePhase,    \* each frontend socket: "new", "open" or "closed"
    cExited,    \* process.exit has been called
    \* ---- history (not program state)
    frames,     \* the messages the backend socket has delivered, in order
    aired,      \* the updates handed to Broadcaster.broadcast, in order
    feGot,      \* per frontend client, the messages sent to it
    joinAt,     \* per frontend client, Len(aired) when it was added
    cutAt,      \* per frontend client, the place in aired of the update whose
                \* send to it failed, or 0
    \* ---- one update put to both validators
    probe,      \* the update
    verdict     \* what the backend and the consumer said about it

queueVars == <<maxSize, items, qMu, notEmpty, pcP, argP, errP, pcC, sizeC, batchC,
               nextId, enqOrder, batches>>

limiterVars == <<lastUpdate, rlMu, clock, tick, pcA, userA, nowA, readA,
                 pcS, calls, clockSteps, accepted, rejects, phase, lastAllow,
                 lastSweep>>

histVars == <<accepted, rejects, phase, lastAllow, lastSweep>>

hubVars == <<clients, broadcast, buffer, send, closed, pcK, pcW,
             ticks, winStart, sent, got, regs, closeCalls, noops>>

readVars == <<left, quiet, pongAge>>

ingestVars == <<pcH, reqH, nowH, log>>

consumerVars == <<socks, socket, shouldReconnect, timers, feClients, fePhase, cExited,
                  frames, aired, feGot, joinAt, cutAt, probe, verdict>>

vars == <<queueVars, limiterVars, hubVars, readVars, ingestVars, exited, consumerVars>>

(***************************************************************************)
(* Helpers on sequences.                                                   *)
(***************************************************************************)
Min(a, b) == IF a < b THEN a ELSE b

\* s[:n] and s[n:] of a Go slice
Head_(s, n) == [i \in 1..n |-> s[i]]
Tail_(s, n) == [i \in 1..(Len(s) - n) |-> s[i + n]]

RECURSIVE Flatten(_)
Flatten(ss) == IF ss = <<>> THEN <<>> ELSE Head(ss) \o Flatten(Tail(ss))

IsPrefix(s, t) == Len(s) <= Len(t) /\ \A i \in 1..Len(s) : s[i] = t[i]

(***************************************************************************)
(* PixelQueue.Enqueue, queue.go:31-50                                      *)
(***************************************************************************)
\* mutant of IsFull: the capacity test off by one
IsFullOffByOne(q) == Len(q) > maxSize

\* queue.go:38  if len(q.items) >= q.maxSize
IsFull(q) == Len(q) >= maxSize

\* mutant of Append_: the update is put at the head
Prepend_(q, pixel) == <<pixel>> \o q

\* queue.go:43  q.items = append(q.items, pixel)
Append_(q, pixel) == Append(q, pixel)

\* mutant of EnqueueResult: a full queue evicts its oldest item
EnqueueEvicting(q, pixel) ==
    IF IsFull(q) /\ q # <<>>
    THEN [items |-> Append_(Tail(q), pixel), err |-> "nil"]
    ELSE [items |-> Append_(q, pixel), err |-> "nil"]

\* queue.go:38-49  the queue after the call and the error returned
EnqueueResult(q, pixel) ==
    IF IsFull(q)
    THEN [items |-> q, err |-> "full"]
    ELSE [items |-> Append_(q, pixel), err |-> "nil"]

\* queue.go:47  q.notEmpty.Signal(): wakes one parked goroutine, if any.
\* Returns the possible (woken, still parked) outcomes.
Signal(parked) ==
    IF parked = {} THEN {<<None, {}>>}
    ELSE {<<c, parked \ {c}>> : c \in parked}

\* a request handler calls Enqueue(pixel)
EnqueueCall(p) ==
    /\ pcP[p] = "idle"
    /\ nextId < MaxEnq
    /\ nextId' = nextId + 1
    /\ argP' = [argP EXCEPT ![p] = [id |-> nextId + 1]]
    /\ pcP' = [pcP EXCEPT ![p] = "lock"]
    /\ UNCHANGED <<items, qMu, notEmpty, errP, pcC, sizeC, batchC, enqOrder, batches,
                   maxSize, limiterVars, hubVars, readVars, ingestVars, exited, consumerVars>>

\* queue.go:34  q.mu.Lock()
EnqueueLock(p) ==
    /\ pcP[p] = "lock"
    /\ qMu = None
    /\ qMu' = p
    /\ pcP' = [pcP EXCEPT ![p] = "held"]
    /\ UNCHANGED <<items, notEmpty, argP, errP, pcC, sizeC, batchC, nextId, enqOrder, batches,
                   maxSize, limiterVars, hubVars, readVars, ingestVars, exited, consumerVars>>

\* queue.go:38-49, with the mutex held
EnqueueBody(p) ==
    /\ pcP[p] = "held"
    /\ qMu = p
    /\ LET r == EnqueueResult(items, argP[p])
       IN  /\ items' = r.items
           /\ errP' = [errP EXCEPT ![p] = r.err]
           /\ IF r.err = "nil"
              THEN /\ enqOrder' = Append(enqOrder, argP[p])
                   /\ \E w \in Signal(notEmpty) :
                         /\ notEmpty' = w[2]
                         /\ pcC' = IF w[1] = None THEN pcC
                                   ELSE [pcC EXCEPT ![w[1]] = "relock"]
              ELSE UNCHANGED <<notEmpty, pcC, enqOrder>>
    /\ pcP' = [pcP EXCEPT ![p] = "unlock"]
    /\ UNCHANGED <<qMu, argP, sizeC, batchC, nextId, batches,
                   maxSize, limiterVars, hubVars, readVars, ingestVars, exited, consumerVars>>

\* queue.go:35  defer q.mu.Unlock(), and the return
EnqueueReturn(p) ==
    /\ pcP[p] = "unlock"
    /\ qMu = p
    /\ qMu' = None
    /\ pcP' = [pcP EXCEPT ![p] = "idle"]
    /\ argP' = [argP EXCEPT ![p] = NoUpdate]
    /\ errP' = [errP EXCEPT ![p] = None]
    /\ UNCHANGED <<items, notEmpty, pcC, sizeC, batchC, nextId, enqOrder, batches,
                   maxSize, limiterVars, hubVars, readVars, ingestVars, exited, consumerVars>>

(***************************************************************************)
(* PixelQueue.DequeueBatch, queue.go:54-82                                 *)
(***************************************************************************)
\* mutant of BatchCount: the clamp to the queue length off by one
BatchCountShort(batchSize, q) == IF batchSize > Len(q) THEN Len(q) - 1 ELSE batchSize

\* queue.go:68-71  count := batchSize; if count > len(q.items) { count = len }
BatchCount(batchSize, q) == IF batchSize > Len(q) THEN Len(q) ELSE batchSize

\* queue.go:74-75  batch := make(.., count); copy(batch, q.items[:count])
TakeBatch(q, count) == Head_(q, count)

\* mutant of Remaining: the batch is copied out but stays in the queue
RemainingAll(q, count) == q

\* queue.go:79  q.items = q.items[count:]
Remaining(q, count) == Tail_(q, count)

\* a goroutine calls DequeueBatch(batchSize)
DequeueCall(c) ==
    /\ pcC[c] = "idle"
    /\ \E n \in 1..MaxBatch : sizeC' = [sizeC EXCEPT ![c] = n]
    /\ pcC' = [pcC EXCEPT ![c] = "lock"]
    /\ UNCHANGED <<items, qMu, notEmpty, pcP, argP, errP, batchC, nextId, enqOrder, batches,
                   maxSize, limiterVars, hubVars, readVars, ingestVars, exited, consumerVars>>

\* queue.go:56  q.mu.Lock()
DequeueLock(c) ==
    /\ pcC[c] = "lock"
    /\ qMu = None
    /\ qMu' = c
    /\ pcC' = [pcC EXCEPT ![c] = "held"]
    /\ UNCHANGED <<items, notEmpty, pcP, argP, errP, sizeC, batchC, nextId, enqOrder, batches,
                   maxSize, limiterVars, hubVars, readVars, ingestVars, exited, consumerVars>>

\* mutant of DequeueWait: the goroutine parks with the mutex still held
DequeueWaitHoldingLock(c) ==
    /\ pcC[c] = "held"
    /\ qMu = c
    /\ Len(items) = 0
    /\ notEmpty' = notEmpty \cup {c}
    /\ pcC' = [pcC EXCEPT ![c] = "wait"]
    /\ UNCHANGED <<items, qMu, pcP, argP, errP, sizeC, batchC, nextId, enqOrder, batches,
                   maxSize, limiterVars, hubVars, readVars, ingestVars, exited, consumerVars>>

\* queue.go:62-63  the queue is empty: Wait() parks the goroutine and
\* releases the mutex
DequeueWait(c) ==
    /\ pcC[c] = "held"
    /\ qMu = c
    /\ Len(items) = 0
    /\ notEmpty' = notEmpty \cup {c}
    /\ qMu' = None
    /\ pcC' = [pcC EXCEPT ![c] = "wait"]
    /\ UNCHANGED <<items, pcP, argP, errP, sizeC, batchC, nextId, enqOrder, batches,
                   maxSize, limiterVars, hubVars, readVars, ingestVars, exited, consumerVars>>

\* queue.go:62-63  Wait() returning: the woken goroutine takes the mutex
\* again, and the for loop tests len(q.items) == 0 again
DequeueRelock(c) ==
    /\ pcC[c] = "relock"
    /\ qMu = None
    /\ qMu' = c
    /\ pcC' = [pcC EXCEPT ![c] = "held"]
    /\ UNCHANGED <<items, notEmpty, pcP, argP, errP, sizeC, batchC, nextId, enqOrder, batches,
                   maxSize, limiterVars, hubVars, readVars, ingestVars, exited, consumerVars>>

\* queue.go:68-79  with the mutex held and the loop left
DequeueTake(c) ==
    /\ pcC[c] = "held"
    /\ qMu = c
    /\ Len(items) # 0
    /\ LET count == BatchCount(sizeC[c], items)
           batch == TakeBatch(items, count)
       IN  /\ batchC' = [batchC EXCEPT ![c] = batch]
           /\ items' = Remaining(items, count)
           /\ batches' = Append(batches, batch)
    /\ pcC' = [pcC EXCEPT ![c] = "unlock"]
    /\ UNCHANGED <<qMu, notEmpty, pcP, argP, errP, sizeC, nextId, enqOrder,
                   maxSize, limiterVars, hubVars, readVars, ingestVars, exited, consumerVars>>

\* queue.go:57  defer q.mu.Unlock(), and the return of the batch
DequeueReturn(c) ==
    /\ pcC[c] = "unlock"
    /\ qMu = c
    /\ qMu' = None
    /\ pcC' = [pcC EXCEPT ![c] = "idle"]
    /\ sizeC' = [sizeC EXCEPT ![c] = 0]
    /\ batchC' = [batchC EXCEPT ![c] = <<>>]
    /\ UNCHANGED <<items, notEmpty, pcP, argP, errP, nextId, enqOrder, batches,
                   maxSize, limiterVars, hubVars, readVars, ingestVars, exited, consumerVars>>

(***************************************************************************)
(* The queue on its own: concurrent Enqueue and DequeueBatch callers.      *)
(***************************************************************************)
\* queue.go:18-27  NewPixelQueue(maxSize)
NewPixelQueue(size) ==
    /\ maxSize = size
    /\ items = <<>>
    /\ qMu = None
    /\ notEmpty = {}

\* no goroutine is inside the queue yet
InitCallers ==
    /\ pcP = [p \in Producers |-> "idle"]
    /\ argP = [p \in Producers |-> NoUpdate]
    /\ errP = [p \in Producers |-> None]
    /\ pcC = [c \in Consumers |-> "idle"]
    /\ sizeC = [c \in Consumers |-> 0]
    /\ batchC = [c \in Consumers |-> <<>>]
    /\ nextId = 0
    /\ enqOrder = <<>>
    /\ batches = <<>>

InitQueue == NewPixelQueue(MaxSize) /\ InitCallers

NextQueue ==
    \/ \E p \in Producers : EnqueueCall(p)
    \/ \E p \in Producers : EnqueueLock(p)
    \/ \E p \in Producers : EnqueueBody(p)
    \/ \E p \in Producers : EnqueueReturn(p)
    \/ \E c \in Consumers : DequeueCall(c)
    \/ \E c \in Consumers : DequeueLock(c)
    \/ \E c \in Consumers : DequeueWait(c)
    \/ \E c \in Consumers : DequeueRelock(c)
    \/ \E c \in Consumers : DequeueTake(c)
    \/ \E c \in Consumers : DequeueReturn(c)

(***************************************************************************)
(* RateLimiter.Allow, part_001:32-61                                       *)
(***************************************************************************)
\* the zero values of the locals lastTime, exists
NotRead == [exists |-> FALSE, lastTime |-> 0]

\* part_001:41  lastTime, exists := rl.lastUpdate[userID]
Lookup(m, userID) ==
    IF userID \in DOMAIN m
    THEN [exists |-> TRUE, lastTime |-> m[userID]]
    ELSE NotRead

\* mutant of InCooldown: a call exactly one cooldown later is still denied
InCooldownInclusive(now, lastTime) == now - lastTime <= Cooldown

\* part_001:50-53  timeSinceLastUpdate := now.Sub(lastTime);
\*                 if timeSinceLastUpdate < rl.cooldown
InCooldown(now, lastTime) == now - lastTime < Cooldown

\* mutant of Record: the timestamp is written to every entry of the map
RecordAll(m, userID, now) == [v \in DOMAIN m \cup {userID} |-> now]

\* part_001:45, 59  rl.lastUpdate[userID] = now
Record(m, userID, now) ==
    [v \in DOMAIN m \cup {userID} |-> IF v = userID THEN now ELSE m[v]]

\* mutant of AllowOutcome: a denied call also stores its time
AllowOutcomeRefreshing(m, userID, now, read) ==
    IF ~read.exists
    THEN [ok |-> TRUE, lastUpdate |-> Record(m, userID, now)]
    ELSE IF InCooldown(now, read.lastTime)
         THEN [ok |-> FALSE, lastUpdate |-> Record(m, userID, now)]
         ELSE [ok |-> TRUE, lastUpdate |-> Record(m, userID, now)]

\* part_001:43-60  the value returned and the map after the call
AllowOutcome(m, userID, now, read) ==
    IF ~read.exists
    THEN [ok |-> TRUE, lastUpdate |-> Record(m, userID, now)]
    ELSE IF InCooldown(now, read.lastTime)
         THEN [ok |-> FALSE, lastUpdate |-> m]
         ELSE [ok |-> TRUE, lastUpdate |-> Record(m, userID, now)]

\* history: the call of userID, sampled at now, held the lock and returned ok
Observe(userID, now, ok) ==
    /\ lastAllow' = [user |-> userID, at |-> now, ok |-> ok,
                     after |-> rejects[userID]]
    /\ accepted' = IF ok THEN [accepted EXCEPT ![userID] = Append(@, now)]
                   ELSE accepted
    /\ rejects' = [rejects EXCEPT ![userID] = IF ok THEN 0 ELSE @ + 1]
    /\ phase' = [phase EXCEPT ![userID] =
                    IF @ = "removed" /\ ok THEN "readmitted"
                    ELSE IF @ = "readmitted" /\ ~ok THEN "denied"
                    ELSE IF @ = "removed" THEN @
                    ELSE "none"]

\* part_001:34  a request handler calls Allow(userID); now := timeNow() is
\* taken before the lock
AllowCall(a) ==
    /\ pcA[a] = "idle"
    /\ calls < MaxCalls
    /\ calls' = calls + 1
    /\ \E u \in Users : userA' = [userA EXCEPT ![a] = u]
    /\ nowA' = [nowA EXCEPT ![a] = clock]
    /\ pcA' = [pcA EXCEPT ![a] = "lock"]
    /\ UNCHANGED <<lastUpdate, rlMu, clock, tick, readA, pcS, clockSteps, histVars,
                   queueVars, hubVars, readVars, ingestVars, exited, consumerVars>>

\* part_001:37-41  rl.mu.Lock(), then the read of the entry
AllowLock(a) ==
    /\ pcA[a] = "lock"
    /\ rlMu = None
    /\ rlMu' = a
    /\ readA' = [readA EXCEPT ![a] = Lookup(lastUpdate, userA[a])]
    /\ pcA' = [pcA EXCEPT ![a] = "decide"]
    /\ UNCHANGED <<lastUpdate, clock, tick, userA, nowA, pcS, calls, clockSteps, histVars,
                   queueVars, hubVars, readVars, ingestVars, exited, consumerVars>>

\* part_001:38, 43-60  the decision, the write of the entry, the deferred
\* rl.mu.Unlock() and the return
AllowDecide(a) ==
    /\ pcA[a] = "decide"
    /\ rlMu = a
    /\ LET r == AllowOutcome(lastUpdate, userA[a], nowA[a], readA[a])
       IN  /\ lastUpdate' = r.lastUpdate
           /\ Observe(userA[a], nowA[a], r.ok)
    /\ rlMu' = None
    /\ pcA' = [pcA EXCEPT ![a] = "idle"]
    /\ readA' = [readA EXCEPT ![a] = NotRead]
    /\ nowA' = [nowA EXCEPT ![a] = 0]
    /\ userA' = [userA EXCEPT ![a] = None]
    /\ UNCHANGED <<clock, tick, pcS, calls, clockSteps, lastSweep,
                   queueVars, hubVars, readVars, ingestVars, exited, consumerVars>>

(***************************************************************************)
(* RateLimiter.cleanup, part_001:65-84                                     *)
(***************************************************************************)
\* mutant of IsStale: an entry exactly at the threshold is removed too
IsStaleInclusive(now, lastTime) == now - lastTime >= Retention

\* part_001:77  if now.Sub(lastTime) > 10*time.Minute
IsStale(now, lastTime) == now - lastTime > Retention

\* part_001:76-80  the map after the loop of deletes
Sweep(m, now) ==
    [v \in {w \in DOMAIN m : ~IsStale(now, m[w])} |-> m[v]]

\* part_001:70  for range ticker.C: the goroutine receives a tick
CleanupTick ==
    /\ pcS = "wait"
    /\ tick
    /\ tick' = FALSE
    /\ pcS' = "lock"
    /\ UNCHANGED <<lastUpdate, rlMu, clock, pcA, userA, nowA, readA, calls, clockSteps, histVars,
                   queueVars, hubVars, readVars, ingestVars, exited, consumerVars>>

\* mutant of CleanupLock: the sweep does not wait for the lock
CleanupLockNoWait ==
    /\ pcS = "lock"
    /\ rlMu' = "cleanup"
    /\ pcS' = "held"
    /\ UNCHANGED <<lastUpdate, clock, tick, pcA, userA, nowA, readA, calls, clockSteps, histVars,
                   queueVars, hubVars, readVars, ingestVars, exited, consumerVars>>

\* part_001:71  rl.mu.Lock()
CleanupLock ==
    /\ pcS = "lock"
    /\ rlMu = None
    /\ rlMu' = "cleanup"
    /\ pcS' = "held"
    /\ UNCHANGED <<lastUpdate, clock, tick, pcA, userA, nowA, readA, calls, clockSteps, histVars,
                   queueVars, hubVars, readVars, ingestVars, exited, consumerVars>>

\* part_001:73-82  now := timeNow(), the deletes and rl.mu.Unlock()
CleanupBody ==
    /\ pcS = "held"
    /\ rlMu = "cleanup"
    /\ lastUpdate' = Sweep(lastUpdate, clock)
    /\ LET removed == DOMAIN lastUpdate \ DOMAIN lastUpdate'
       IN  IF removed = {}
           THEN UNCHANGED <<phase, lastSweep>>
           ELSE /\ phase' = [u \in Users |->
                                IF u \in removed THEN "removed" ELSE phase[u]]
                /\ lastSweep' = [at |-> clock, removed |-> removed,
                                 kept |-> DOMAIN lastUpdate']
    /\ rlMu' = None
    /\ pcS' = "wait"
    /\ UNCHANGED <<clock, tick, pcA, userA, nowA, readA, calls, clockSteps,
                   accepted, rejects, lastAllow,
                   queueVars, hubVars, readVars, ingestVars, exited, consumerVars>>

(***************************************************************************)
(* Time: timeNow() (part_001:88) and the ticker of cleanup (part_001:67).  *)
(***************************************************************************)
\* the ticker sends a tick at every multiple of the interval; a tick that
\* finds the channel full is dropped
TickDue(from, to) == to \div CleanupInterval > from \div CleanupInterval

Advance ==
    /\ clockSteps < MaxClockSteps
    /\ clockSteps' = clockSteps + 1
    /\ \E d \in TimeSteps :
          /\ clock' = clock + d
          /\ tick' = (tick \/ TickDue(clock, clock + d))
    /\ UNCHANGED <<lastUpdate, rlMu, pcA, userA, nowA, readA, pcS, calls, histVars,
                   queueVars, hubVars, readVars, ingestVars, exited, consumerVars>>

(***************************************************************************)
(* The rate limiter on its own: concurrent Allow callers and the cleanup   *)
(* goroutine.                                                              *)
(***************************************************************************)
InitLimiter ==
    /\ lastUpdate = <<>>
    /\ rlMu = None
    /\ clock = 0
    /\ tick = FALSE
    /\ pcA = [a \in Allowers |-> "idle"]
    /\ userA = [a \in Allowers |-> None]
    /\ nowA = [a \in Allowers |-> 0]
    /\ readA = [a \in Allowers |-> NotRead]
    /\ pcS = "wait"
    /\ calls = 0
    /\ clockSteps = 0
    /\ accepted = [u \in Users |-> <<>>]
    /\ rejects = [u \in Users |-> 0]
    /\ phase = [u \in Users |-> "none"]
    /\ lastAllow = [user |-> None, at |-> 0, ok |-> FALSE, after |-> 0]
    /\ lastSweep = [at |-> 0, removed |-> {}, kept |-> {}]

NextLimiter ==
    \/ \E a \in Allowers : AllowCall(a)
    \/ \E a \in Allowers : AllowLock(a)
    \/ \E a \in Allowers : AllowDecide(a)
    \/ CleanupTick
    \/ CleanupLock
    \/ CleanupBody
    \/ Advance

(***************************************************************************)
(* Hub.processQueue, hub.go:87-125: the flush ticker and the goroutine it  *)
(* starts at every tick. The goroutines are the Consumers of the queue.    *)
(***************************************************************************)
\* mutant of HubBatchArg: the goroutine asks for the whole queue
HubBatchArgWhole == QueueSize

\* hub.go:113  h.queue.DequeueBatch(50)
HubBatchArg == BatchSize

\* mutant of Place: the batch is put on the channel twice
PlaceTwice(ch, batch) == Append(Append(ch, batch), batch)

\* hub.go:101, hub.go:117  h.broadcast <- batch
Place(ch, batch) == Append(ch, batch)

\* a channel send can proceed
HasRoom(ch, cap) == Len(ch) < cap

\* hub.go:97-122  one tick: the buffer is flushed if it holds anything, and
\* a goroutine is started for the queue
TickBody(workers) ==
    /\ \E d \in workers : pcC[d] = "idle"
    /\ IF Len(buffer) > 0
       THEN /\ HasRoom(broadcast, BroadcastCap)
            /\ broadcast' = Place(broadcast, buffer)
            /\ sent' = sent \o SubSeq(broadcast', Len(broadcast) + 1, Len(broadcast'))
            /\ buffer' = <<>>
       ELSE UNCHANGED <<broadcast, sent, buffer>>
    /\ LET c == CHOOSE d \in workers : pcC[d] = "idle"
       IN  pcC' = [pcC EXCEPT ![c] = "isempty"]
    /\ winStart' = Len(enqOrder)
    /\ UNCHANGED <<maxSize, items, qMu, notEmpty, pcP, argP, errP, sizeC, batchC, nextId,
                   enqOrder, batches, clients, send, closed, pcK, pcW, got, regs, closeCalls, noops,
                   limiterVars, readVars, ingestVars, exited, consumerVars>>

\* hub.go:96-97  case <-ticker.C, for the first MaxTicks ticks
FlushTick(workers) ==
    /\ ticks < MaxTicks
    /\ TickBody(workers)
    /\ ticks' = ticks + 1

\* hub.go:95-97  for { select { case <-ticker.C: the ticker never stops, and
\* the ticks are not counted
TickForever(workers) ==
    /\ TickBody(workers)
    /\ UNCHANGED ticks

\* mutant of Forwards: the goroutine ends without sending its batch
ForwardsNever(batch) == FALSE

\* hub.go:114  if len(batch) > 0
Forwards(batch) == Len(batch) > 0

\* hub.go:111  if !h.queue.IsEmpty(), queue.go:92-96 under the mutex
FlushIsEmpty(c) ==
    /\ pcC[c] = "isempty"
    /\ qMu = None
    /\ IF Len(items) = 0
       THEN /\ pcC' = [pcC EXCEPT ![c] = "idle"]
            /\ UNCHANGED sizeC
       ELSE /\ pcC' = [pcC EXCEPT ![c] = "lock"]
            /\ sizeC' = [sizeC EXCEPT ![c] = HubBatchArg]
    /\ UNCHANGED <<maxSize, items, qMu, notEmpty, pcP, argP, errP, batchC, nextId, enqOrder,
                   batches, limiterVars, hubVars, readVars, ingestVars, exited, consumerVars>>

\* queue.go:57 and hub.go:113-114  DequeueBatch unlocks and returns the
\* batch; the goroutine ends unless len(batch) > 0
FlushDequeued(c) ==
    /\ pcC[c] = "unlock"
    /\ qMu = c
    /\ qMu' = None
    /\ sizeC' = [sizeC EXCEPT ![c] = 0]
    /\ IF Forwards(batchC[c])
       THEN pcC' = [pcC EXCEPT ![c] = "send"]
       ELSE pcC' = [pcC EXCEPT ![c] = "idle"]
    /\ UNCHANGED <<maxSize, items, notEmpty, pcP, argP, errP, batchC, nextId, enqOrder,
                   batches, limiterVars, hubVars, readVars, ingestVars, exited, consumerVars>>

\* hub.go:117  h.broadcast <- batch, and the goroutine ends
FlushSend(c) ==
    /\ pcC[c] = "send"
    /\ HasRoom(broadcast, BroadcastCap)
    /\ broadcast' = Place(broadcast, batchC[c])
    /\ sent' = sent \o SubSeq(broadcast', Len(broadcast) + 1, Len(broadcast'))
    /\ pcC' = [pcC EXCEPT ![c] = "idle"]
    /\ batchC' = [batchC EXCEPT ![c] = <<>>]
    /\ UNCHANGED <<maxSize, items, qMu, notEmpty, pcP, argP, errP, sizeC, nextId, enqOrder,
                   batches, clients, buffer, send, closed, pcK, pcW, ticks, winStart, got, regs, closeCalls, noops,
                   limiterVars, readVars, ingestVars, exited, consumerVars>>

(***************************************************************************)
(* Server.handleWebSocket, server.go:248-275, and the pumps of a Client,   *)
(* client.go:47-121                                                        *)
(***************************************************************************)
\* mutant of Connect: a new handshake takes up the Client of a connection
\* that has ended
ConnectReusing(k) ==
    /\ pcK[k] \in {"none", "gone"}
    /\ pcK' = [pcK EXCEPT ![k] = "register"]
    /\ UNCHANGED <<clients, broadcast, buffer, send, closed, pcW, ticks, winStart, sent, got,
                   regs, closeCalls, noops, queueVars, limiterVars, readVars, ingestVars, exited, consumerVars>>

\* server.go:258-267  the socket is upgraded, the Client is made and the
\* handler blocks in s.hub.register <- client
Connect(k) ==
    /\ pcK[k] = "none"
    /\ pcK' = [pcK EXCEPT ![k] = "register"]
    /\ UNCHANGED <<clients, broadcast, buffer, send, closed, pcW, ticks, winStart, sent, got,
                   regs, closeCalls, noops, queueVars, limiterVars, readVars, ingestVars, exited, consumerVars>>

\* mutant of ReadPumpExit: readPump ends without the deferred
\* c.hub.unregister <- c
ReadPumpExitNoUnregister(k) ==
    /\ pcK[k] = "open"
    /\ pcK' = [pcK EXCEPT ![k] = "gone"]
    /\ UNCHANGED <<clients, broadcast, buffer, send, closed, pcW, ticks, winStart, sent, got,
                   regs, closeCalls, noops, queueVars, limiterVars, readVars, ingestVars, exited, consumerVars>>

\* client.go:47-74  readPump: ReadMessage fails (peer gone, deadline passed,
\* socket closed) and the deferred function blocks in c.hub.unregister <- c
ReadPumpExit(k) ==
    /\ pcK[k] = "open"
    /\ pcK' = [pcK EXCEPT ![k] = "unregister"]
    /\ UNCHANGED <<clients, broadcast, buffer, send, closed, pcW, ticks, winStart, sent, got,
                   regs, closeCalls, noops, queueVars, limiterVars, readVars, ingestVars, exited, consumerVars>>

\* client.go:88-107  writePump takes a batch from c.send and writes it to
\* the socket; a failed write ends the pump
WritePumpBatch(k) ==
    /\ pcW[k] = "run"
    /\ Len(send[k]) > 0
    /\ send' = [send EXCEPT ![k] = Tail(send[k])]
    /\ \E ok \in BOOLEAN : pcW' = [pcW EXCEPT ![k] = IF ok THEN "run" ELSE "done"]
    /\ UNCHANGED <<clients, broadcast, buffer, closed, pcK, ticks, winStart, sent, got,
                   regs, closeCalls, noops, queueVars, limiterVars, readVars, ingestVars, exited, consumerVars>>

\* client.go:88-94  c.send is closed and drained: the pump writes the close
\* message and ends
WritePumpClosed(k) ==
    /\ pcW[k] = "run"
    /\ Len(send[k]) = 0
    /\ closed[k]
    /\ pcW' = [pcW EXCEPT ![k] = "done"]
    /\ UNCHANGED <<clients, broadcast, buffer, send, closed, pcK, ticks, winStart, sent, got,
                   regs, closeCalls, noops, queueVars, limiterVars, readVars, ingestVars, exited, consumerVars>>

\* client.go:113-118  the ping ticker fires and writing the ping fails: the
\* pump ends (a ping that is written changes nothing)
WritePumpPingFails(k) ==
    /\ pcW[k] = "run"
    /\ pcW' = [pcW EXCEPT ![k] = "done"]
    /\ UNCHANGED <<clients, broadcast, buffer, send, closed, pcK, ticks, winStart, sent, got,
                   regs, closeCalls, noops, queueVars, limiterVars, readVars, ingestVars, exited, consumerVars>>

(***************************************************************************)
(* The read deadline of a connection, client.go:54-73. Time is counted in  *)
(* seconds and passes ReadStep at a time.                                  *)
(***************************************************************************)
\* mutant of AfterPong: the pong handler leaves the deadline where it is
AfterPongKept(l) == l

\* client.go:57  c.conn.SetReadDeadline(time.Now().Add(pongWait)), given the
\* seconds l that were left
AfterPong(l) == PongWait

\* client.go:56-60  a pong arrives before the deadline: ReadMessage runs the
\* pong handler and goes on reading
ReadPong(k) ==
    /\ pcK[k] = "open"
    /\ left[k] > 0
    /\ left' = [left EXCEPT ![k] = AfterPong(left[k])]
    /\ quiet' = [quiet EXCEPT ![k] = 0]
    /\ pongAge' = [pongAge EXCEPT ![k] = 0]
    /\ UNCHANGED <<hubVars, queueVars, limiterVars, ingestVars, exited, consumerVars>>

\* client.go:64-73  a text or binary frame arrives before the deadline:
\* ReadMessage returns it, the loop drops it and reads again
ReadData(k) ==
    /\ pcK[k] = "open"
    /\ left[k] > 0
    /\ quiet' = [quiet EXCEPT ![k] = 0]
    /\ UNCHANGED <<left, pongAge, hubVars, queueVars, limiterVars, ingestVars, exited, consumerVars>>

\* ReadStep seconds pass for every connection that is reading; a deadline
\* that is reached stops the clock until ReadMessage has failed
Elapse ==
    /\ \E k \in Conns : pcK[k] = "open"
    /\ \A k \in Conns : pcK[k] = "open" => left[k] >= ReadStep
    /\ left' = [k \in Conns |-> IF pcK[k] = "open" THEN left[k] - ReadStep ELSE left[k]]
    /\ quiet' = [k \in Conns |->
                    IF pcK[k] = "open" THEN Min(quiet[k] + ReadStep, PongWait) ELSE quiet[k]]
    /\ pongAge' = [k \in Conns |->
                    IF pcK[k] = "open" THEN Min(pongAge[k] + ReadStep, PongWait)
                    ELSE pongAge[k]]
    /\ UNCHANGED <<hubVars, queueVars, limiterVars, ingestVars, exited, consumerVars>>

\* client.go:64-72  the read deadline has passed: ReadMessage fails with a
\* timeout and the deferred function blocks in c.hub.unregister <- c
ReadPumpTimeout(k) ==
    /\ pcK[k] = "open"
    /\ left[k] = 0
    /\ pcK' = [pcK EXCEPT ![k] = "unregister"]
    /\ UNCHANGED <<clients, broadcast, buffer, send, closed, pcW, ticks, winStart, sent, got,
                   regs, closeCalls, noops, queueVars, limiterVars, readVars, ingestVars, exited, consumerVars>>

(***************************************************************************)
(* Hub.Run, hub.go:45-83: one case of the select per action                *)
(***************************************************************************)
\* mutant of Register: registering a registered connection removes it
RegisterToggle(cs, k) == IF k \in cs THEN cs \ {k} ELSE cs \cup {k}

\* hub.go:55  h.clients[client] = true
Register(cs, k) == cs \cup {k}

\* mutant of Known: the unregister case does not look the Client up
KnownAlways(cs, k) == TRUE

\* hub.go:60  if _, ok := h.clients[client]; ok
Known(cs, k) == k \in cs

\* mutant of Receivers: one full mailbox holds the batch back from everyone
ReceiversNoneIfFull(cs, full) == IF full = {} THEN cs ELSE {}

\* hub.go:73  the connections whose select takes case client.send <- batch
Receivers(cs, full) == cs \ full

\* mutant of Survivors: an evicted connection stays in the map
SurvivorsKeepAll(cs, full) == cs

\* hub.go:77  delete(h.clients, client) for those that took the default case
Survivors(cs, full) == cs \ full

\* hub.go:53-56  case client := <-h.register; the handler goes on to start
\* the pumps (server.go:270-271), and readPump sets the first read deadline
\* (client.go:55)
HubRegister(k) ==
    /\ pcK[k] = "register"
    /\ clients' = Register(clients, k)
    /\ pcK' = [pcK EXCEPT ![k] = "open"]
    /\ pcW' = [pcW EXCEPT ![k] = "run"]
    /\ regs' = [regs EXCEPT ![k] = Append(regs[k], Len(got[k]))]
    /\ left' = [left EXCEPT ![k] = PongWait]
    /\ quiet' = [quiet EXCEPT ![k] = 0]
    /\ pongAge' = [pongAge EXCEPT ![k] = 0]
    /\ UNCHANGED <<broadcast, buffer, send, closed, ticks, winStart, sent, got, closeCalls, noops,
                   queueVars, limiterVars, ingestVars, exited, consumerVars>>

\* hub.go:53-56  the same case when the Client received is already in the
\* map (no caller in the program sends one twice; the channel accepts it)
HubRegisterAgain(k) ==
    /\ k \in clients
    /\ Len(regs[k]) < MaxRegs
    /\ clients' = Register(clients, k)
    /\ regs' = [regs EXCEPT ![k] = Append(regs[k], Len(got[k]))]
    /\ UNCHANGED <<broadcast, buffer, send, closed, pcK, pcW, ticks, winStart, sent, got, closeCalls, noops,
                   queueVars, limiterVars, readVars, ingestVars, exited, consumerVars>>

\* mutant of Unregistered: the Client is closed but stays in the map
UnregisteredKept(cs, k) == cs

\* hub.go:61  delete(h.clients, client)
Unregistered(cs, k) == cs \ {k}

\* hub.go:58-64  case client := <-h.unregister; readPump goes on to close
\* the socket and ends
HubUnregister(k) ==
    /\ pcK[k] = "unregister"
    /\ IF Known(clients, k)
       THEN /\ clients' = Unregistered(clients, k)
            /\ closed' = [closed EXCEPT ![k] = TRUE]
            /\ closeCalls' = [closeCalls EXCEPT ![k] = @ + 1]
            /\ UNCHANGED noops
       ELSE /\ noops' = noops \cup {k}
            /\ UNCHANGED <<clients, closed, closeCalls>>
    /\ pcK' = [pcK EXCEPT ![k] = "gone"]
    /\ UNCHANGED <<broadcast, buffer, send, pcW, ticks, winStart, sent, got,
                   regs, queueVars, limiterVars, readVars, ingestVars, exited, consumerVars>>

\* mutant of HubBroadcast: client.send <- batch without the default case,
\* so the loop waits until every registered mailbox has room
HubBroadcastBlocking ==
    /\ Len(broadcast) > 0
    /\ \A k \in clients : HasRoom(send[k], MailboxCap)
    /\ LET batch == Head(broadcast)
       IN  /\ send' = [k \in Conns |-> IF k \in clients THEN Append(send[k], batch) ELSE send[k]]
           /\ got' = [k \in Conns |-> IF k \in clients THEN Append(got[k], batch) ELSE got[k]]
    /\ broadcast' = Tail(broadcast)
    /\ UNCHANGED <<clients, closed, buffer, pcK, pcW, ticks, winStart, sent,
                   regs, closeCalls, noops, queueVars, limiterVars, readVars, ingestVars, exited, consumerVars>>

\* hub.go:66-80  case batch := <-h.broadcast: every registered connection
\* gets the batch unless its mailbox is full, in which case it is closed and
\* deleted
HubBroadcast ==
    /\ Len(broadcast) > 0
    /\ LET batch == Head(broadcast)
           full == {k \in clients : ~HasRoom(send[k], MailboxCap)}
           to == Receivers(clients, full)
       IN  /\ send' = [k \in Conns |-> IF k \in to THEN Append(send[k], batch) ELSE send[k]]
           /\ got' = [k \in Conns |-> IF k \in to THEN Append(got[k], batch) ELSE got[k]]
           /\ closed' = [k \in Conns |-> closed[k] \/ k \in full]
           /\ closeCalls' = [k \in Conns |-> IF k \in full THEN closeCalls[k] + 1
                                                         ELSE closeCalls[k]]
           /\ clients' = Survivors(clients, full)
    /\ broadcast' = Tail(broadcast)
    /\ UNCHANGED <<buffer, pcK, pcW, ticks, winStart, sent,
                   regs, noops, queueVars, limiterVars, readVars, ingestVars, exited, consumerVars>>

(***************************************************************************)
(* Server.handlePixelUpdate, server.go:185-246, and validatePixel,         *)
(* server.go:322-344. A colour is the sequence of its characters.          *)
(***************************************************************************)
HexDigits == {"0", "1", "2", "3", "4", "5", "6", "7", "8", "9",
              "A", "B", "C", "D", "E", "F", "a", "b", "c", "d", "e", "f"}

\* server.go:182  regexp.MustCompile(`^#[0-9A-Fa-f]{6}$`).MatchString(color)
hexColorRegex(color) ==
    /\ Len(color) = 7
    /\ color[1] = "#"
    /\ \A i \in 2..7 : color[i] \in HexDigits

\* mutant of validatePixel: the X coordinate is not checked
validatePixelAnyX(pixel) ==
    IF pixel.y < 0 \/ pixel.y > 999 THEN "y coordinate must be between 0 and 999"
    ELSE IF ~hexColorRegex(pixel.color) THEN "color must be in #RRGGBB format"
    ELSE IF pixel.userID = "" THEN "userId is required"
    ELSE "nil"

\* server.go:322-344  the error returned
validatePixel(pixel) ==
    IF pixel.x < 0 \/ pixel.x > 999 THEN "x coordinate must be between 0 and 999"
    ELSE IF pixel.y < 0 \/ pixel.y > 999 THEN "y coordinate must be between 0 and 999"
    ELSE IF ~hexColorRegex(pixel.color) THEN "color must be in #RRGGBB format"
    ELSE IF pixel.userID = "" THEN "userId is required"
    ELSE "nil"

\* server.go:356-358  currentTimeMillis() when timeNow() returns t seconds
currentTimeMillis(t) == t * 1000

\* an HTTP request: its method, whether its body decodes as JSON, and the
\* fields of the PixelUpdate in the body
Request(method, json, x, y, color, userID, timestamp) ==
    [method |-> method, json |-> json, x |-> x, y |-> y, color |-> color,
     userID |-> userID, timestamp |-> timestamp]

\* the requests clients send: two that pass every check, and one that fails
\* each check
Requests ==
    { Request("POST", TRUE, 0, 0, <<"#", "F", "F", "0", "0", "0", "0">>, "u1", -1),
      Request("POST", TRUE, 999, 999, <<"#", "0", "0", "f", "f", "0", "9">>, "u2", 123),
      Request("GET", TRUE, 0, 0, <<"#", "F", "F", "0", "0", "0", "0">>, "u1", -1),
      Request("POST", FALSE, 0, 0, <<>>, "", 0),
      Request("POST", TRUE, -1, 0, <<"#", "F", "F", "0", "0", "0", "0">>, "u1", -1),
      Request("POST", TRUE, 1000, 0, <<"#", "F", "F", "0", "0", "0", "0">>, "u1", -1),
      Request("POST", TRUE, 0, -1, <<"#", "F", "F", "0", "0", "0", "0">>, "u1", -1),
      Request("POST", TRUE, 0, 1000, <<"#", "F", "F", "0", "0", "0", "0">>, "u1", -1),
      Request("POST", TRUE, 0, 0, <<"r", "e", "d">>, "u1", -1),
      Request("POST", TRUE, 0, 0, <<"#", "F", "F", "0", "0", "0">>, "u1", -1),
      Request("POST", TRUE, 0, 0, <<"#", "G", "G", "0", "0", "0", "0">>, "u1", -1),
      Request("POST", TRUE, 0, 0, <<"#", "F", "F", "0", "0", "0", "0", "\n">>, "u1", -1),
      Request("POST", TRUE, 0, 0, <<"#", "F", "F", "0", "0", "0", "0">>, "", -1) }

\* server.go:203-204  the PixelUpdate decoded from the body; id numbers the
\* requests in the order received (history)
Decode(req, id) ==
    [id |-> id, x |-> req.x, y |-> req.y, color |-> req.color,
     userID |-> req.userID, timestamp |-> req.timestamp]

\* server.go:186-214  the status of the response that refuses the request
\* before the rate limiter is asked, or 0 when the handler goes on
Refusal(req) ==
    IF req.method # "POST" THEN 405
    ELSE IF ~req.json THEN 400
    ELSE IF validatePixel(Decode(req, 0)) # "nil" THEN 400
    ELSE 0

\* history: a request for which nothing has been done yet (no call of
\* Allow, SavePixel or Enqueue, no response)
NoOutcome == [allow |-> None, save |-> None, enq |-> None, status |-> 0]

\* server.go:186-218  the method, the body and the pixel are checked; a request
\* that passes calls s.rateLimiter.Allow(pixel.UserID), which takes
\* now := timeNow() before the lock (part_001:34)
HandleRequest(h) ==
    /\ pcH[h] = "idle"
    /\ Len(log) < MaxReqs
    /\ \E req \in Requests :
          IF Refusal(req) # 0
          THEN /\ log' = Append(log, [NoOutcome EXCEPT !.status = Refusal(req)])
               /\ UNCHANGED <<pcH, reqH, nowH>>
          ELSE /\ log' = Append(log, NoOutcome)
               /\ reqH' = [reqH EXCEPT ![h] = Decode(req, Len(log) + 1)]
               /\ nowH' = [nowH EXCEPT ![h] = clock]
               /\ pcH' = [pcH EXCEPT ![h] = "allow"]
    /\ UNCHANGED <<queueVars, limiterVars, hubVars, readVars, exited, consumerVars>>

\* mutant of AfterAllow: the handler goes on whatever Allow returned
AfterAllowAlways(ok) == "stamp"

\* server.go:218-221  if !s.rateLimiter.Allow(pixel.UserID) { ...; return }
AfterAllow(ok) == IF ok THEN "stamp" ELSE "idle"

\* part_001:37-60 and server.go:218-221  Allow with rl.mu held, from Lock to
\* the deferred Unlock, and the 429 response when it returns false (the
\* history of the limiter's own callers is not kept for handlers)
HandlerAllow(h) ==
    /\ pcH[h] = "allow"
    /\ rlMu = None
    /\ LET userID == reqH[h].userID
           r == AllowOutcome(lastUpdate, userID, nowH[h], Lookup(lastUpdate, userID))
       IN  /\ lastUpdate' = r.lastUpdate
           /\ log' = [log EXCEPT ![reqH[h].id] =
                         [@ EXCEPT !.allow = IF r.ok THEN "true" ELSE "false",
                                   !.status = IF r.ok THEN 0 ELSE 429]]
           /\ pcH' = [pcH EXCEPT ![h] = AfterAllow(r.ok)]
           /\ reqH' = IF AfterAllow(r.ok) = "idle"
                      THEN [reqH EXCEPT ![h] = NoUpdate] ELSE reqH
    /\ nowH' = IF AfterAllow(AllowOutcome(lastUpdate, reqH[h].userID, nowH[h],
                                           Lookup(lastUpdate, reqH[h].userID)).ok) = "idle"
               THEN [nowH EXCEPT ![h] = 0] ELSE nowH
    /\ UNCHANGED <<rlMu, clock, tick, pcA, userA, nowA, readA, pcS, calls, clockSteps,
                   histVars, queueVars, hubVars, readVars, exited, consumerVars>>

\* mutant of AfterStamp: the handler goes to the queue without saving
AfterStampSkipsSave == "enqueue"

\* server.go:224-227  after the timestamp comes s.db.SavePixel(pixel)
AfterStamp == "save"

\* server.go:224  pixel.Timestamp = currentTimeMillis()
HandlerStamp(h) ==
    /\ pcH[h] = "stamp"
    /\ reqH' = [reqH EXCEPT ![h].timestamp = currentTimeMillis(clock)]
    /\ pcH' = [pcH EXCEPT ![h] = AfterStamp]
    /\ UNCHANGED <<nowH, log, queueVars, limiterVars, hubVars, readVars, exited, consumerVars>>

\* mutant of AfterSave: a failed save ends the request
AfterSaveFatal(err) == IF err = "nil" THEN "enqueue" ELSE "idle"

\* server.go:227-230  the error of SavePixel is logged and the handler goes on
AfterSave(err) == "enqueue"

\* server.go:227-230  s.db.SavePixel(pixel) succeeds or fails
HandlerSave(h) ==
    /\ pcH[h] = "save"
    /\ \E err \in {"nil", "error"} :
          /\ log' = [log EXCEPT ![reqH[h].id].save = err]
          /\ pcH' = [pcH EXCEPT ![h] = AfterSave(err)]
          /\ reqH' = IF AfterSave(err) = "idle"
                     THEN [reqH EXCEPT ![h] = NoUpdate] ELSE reqH
    /\ UNCHANGED <<nowH, queueVars, limiterVars, hubVars, readVars, exited, consumerVars>>

\* mutant of EnqueueStatus: the response does not depend on the error
EnqueueStatusOk(err) == 200

\* server.go:233-241  503 when Enqueue returns an error, 200 otherwise
EnqueueStatus(err) == IF err = "nil" THEN 200 ELSE 503

\* mutant of HandlerEnqueue: a request that finds the queue full gives its
\* place in the rate limiter back
HandlerEnqueueRefunding(h) ==
    /\ pcH[h] = "enqueue"
    /\ qMu = None
    /\ LET r == EnqueueResult(items, reqH[h])
       IN  /\ items' = r.items
           /\ log' = [log EXCEPT ![reqH[h].id] =
                         [@ EXCEPT !.enq = r.err, !.status = EnqueueStatus(r.err)]]
           /\ IF r.err = "nil"
              THEN /\ enqOrder' = Append(enqOrder, reqH[h])
                   /\ \E w \in Signal(notEmpty) :
                         /\ notEmpty' = w[2]
                         /\ pcC' = IF w[1] = None THEN pcC
                                   ELSE [pcC EXCEPT ![w[1]] = "relock"]
              ELSE UNCHANGED <<notEmpty, pcC, enqOrder>>
    /\ lastUpdate' = IF EnqueueResult(items, reqH[h]).err = "nil" THEN lastUpdate
                      ELSE [v \in DOMAIN lastUpdate \ {reqH[h].userID} |-> lastUpdate[v]]
    /\ nextId' = nextId + 1
    /\ pcH' = [pcH EXCEPT ![h] = "idle"]
    /\ reqH' = [reqH EXCEPT ![h] = NoUpdate]
    /\ nowH' = [nowH EXCEPT ![h] = 0]
    /\ UNCHANGED <<maxSize, qMu, pcP, argP, errP, sizeC, batchC, batches,
                   rlMu, clock, tick, pcA, userA, nowA, readA, pcS, calls, clockSteps,
                   histVars, hubVars, readVars, exited, consumerVars>>

\* queue.go:33-49 and server.go:233-241  Enqueue with q.mu held, from Lock
\* to the deferred Unlock, and the response
HandlerEnqueue(h) ==
    /\ pcH[h] = "enqueue"
    /\ qMu = None
    /\ LET r == EnqueueResult(items, reqH[h])
       IN  /\ items' = r.items
           /\ log' = [log EXCEPT ![reqH[h].id] =
                         [@ EXCEPT !.enq = r.err, !.status = EnqueueStatus(r.err)]]
           /\ IF r.err = "nil"
              THEN /\ enqOrder' = Append(enqOrder, reqH[h])
                   /\ \E w \in Signal(notEmpty) :
                         /\ notEmpty' = w[2]
                         /\ pcC' = IF w[1] = None THEN pcC
                                   ELSE [pcC EXCEPT ![w[1]] = "relock"]
              ELSE UNCHANGED <<notEmpty, pcC, enqOrder>>
    /\ nextId' = nextId + 1
    /\ pcH' = [pcH EXCEPT ![h] = "idle"]
    /\ reqH' = [reqH EXCEPT ![h] = NoUpdate]
    /\ nowH' = [nowH EXCEPT ![h] = 0]
    /\ UNCHANGED <<maxSize, qMu, pcP, argP, errP, sizeC, batchC, batches,
                   limiterVars, hubVars, readVars, exited, consumerVars>>

\* server.go:356 and part_001:88  the time timeNow() returns moves on by one
\* cooldown, up to MaxSize - 1 times, while requests are handled
CooldownPasses ==
    /\ clock < Cooldown * (MaxSize - 1)
    /\ clock' = clock + Cooldown
    /\ tick' = (tick \/ TickDue(clock, clock + Cooldown))
    /\ UNCHANGED <<lastUpdate, rlMu, pcA, userA, nowA, readA, pcS, calls, clockSteps,
                   histVars, queueVars, hubVars, readVars, ingestVars, exited, consumerVars>>

InitHandlers ==
    /\ pcH = [h \in Handlers |-> "idle"]
    /\ reqH = [h \in Handlers |-> NoUpdate]
    /\ nowH = [h \in Handlers |-> 0]
    /\ log = <<>>

\* concurrent requests to the ingestion endpoint as time passes
NextIngest ==
    \/ \E h \in Handlers : HandleRequest(h)
    \/ \E h \in Handlers : HandlerAllow(h)
    \/ \E h \in Handlers : HandlerStamp(h)
    \/ \E h \in Handlers : HandlerSave(h)
    \/ \E h \in Handlers : HandlerEnqueue(h)
    \/ CooldownPasses

(***************************************************************************)
(* The consumer: values of JavaScript, validatePixelUpdate                 *)
(* (validator.ts:24-85) and processPixelUpdate (index.ts:51-89).           *)
(* A string is the sequence of its characters.                             *)
(***************************************************************************)
\* a JavaScript value with its typeof
JNum(n) == [t |-> "number", n |-> n, s |-> <<>>]
JStr(cs) == [t |-> "string", n |-> 0, s |-> cs]
JUndefined == [t |-> "undefined", n |-> 0, s |-> <<>>]

\* an element of a parsed message: null, or an object with the fields of a
\* PixelUpdate (a missing field is undefined)
JNull == [nil |-> TRUE, x |-> JUndefined, y |-> JUndefined, color |-> JUndefined,
          userId |-> JUndefined, timestamp |-> JUndefined]
JPixel(x, y, color, userId, timestamp) ==
    [nil |-> FALSE, x |-> x, y |-> y, color |-> color, userId |-> userId,
     timestamp |-> timestamp]

\* !v for the values used here
Falsy(v) ==
    \/ v.t = "undefined"
    \/ v.t = "number" /\ v.n = 0
    \/ v.t = "string" /\ v.s = <<>>

\* validator.ts:83-84  /^#([0-9A-Fa-f]{3}|[0-9A-Fa-f]{6})$/.test(color)
isValidHexColor(color) ==
    /\ Len(color) \in {4, 7}
    /\ color[1] = "#"
    /\ \A i \in 2..Len(color) : color[i] \in HexDigits

WhiteSpace == {" ", "\t", "\n", "\r"}

RECURSIVE trimStart(_)
trimStart(cs) ==
    IF cs # <<>> /\ Head(cs) \in WhiteSpace THEN trimStart(Tail(cs)) ELSE cs

RECURSIVE trimEnd(_)
trimEnd(cs) ==
    IF cs # <<>> /\ cs[Len(cs)] \in WhiteSpace
    THEN trimEnd(SubSeq(cs, 1, Len(cs) - 1)) ELSE cs

\* String.prototype.trim
trim(cs) == trimEnd(trimStart(cs))

\* mutant of validatePixelUpdate: the colour is not checked
validatePixelUpdateAnyColor(pixel, canvasWidth, canvasHeight) ==
    IF pixel.nil
    THEN [isValid |-> FALSE, error |-> "Pixel update is null or undefined"]
    ELSE IF pixel.x.t # "number" \/ pixel.x.n < 0 \/ pixel.x.n >= canvasWidth
    THEN [isValid |-> FALSE, error |-> "Invalid X coordinate"]
    ELSE IF pixel.y.t # "number" \/ pixel.y.n < 0 \/ pixel.y.n >= canvasHeight
    THEN [isValid |-> FALSE, error |-> "Invalid Y coordinate"]
    ELSE IF pixel.userId.t # "string" \/ trim(pixel.userId.s) = <<>>
    THEN [isValid |-> FALSE, error |-> "Invalid or missing userId"]
    ELSE [isValid |-> TRUE, error |-> ""]

\* validator.ts:24-68
validatePixelUpdate(pixel, canvasWidth, canvasHeight) ==
    IF pixel.nil
    THEN [isValid |-> FALSE, error |-> "Pixel update is null or undefined"]
    ELSE IF pixel.x.t # "number" \/ pixel.x.n < 0 \/ pixel.x.n >= canvasWidth
    THEN [isValid |-> FALSE, error |-> "Invalid X coordinate"]
    ELSE IF pixel.y.t # "number" \/ pixel.y.n < 0 \/ pixel.y.n >= canvasHeight
    THEN [isValid |-> FALSE, error |-> "Invalid Y coordinate"]
    ELSE IF pixel.color.t # "string" \/ ~isValidHexColor(pixel.color.s)
    THEN [isValid |-> FALSE, error |-> "Invalid color format"]
    ELSE IF pixel.userId.t # "string" \/ trim(pixel.userId.s) = <<>>
    THEN [isValid |-> FALSE, error |-> "Invalid or missing userId"]
    ELSE [isValid |-> TRUE, error |-> ""]

\* mutant of Discards: nothing is discarded
DiscardsNothing(result) == FALSE

\* index.ts:72  if (!validationResult.isValid) { ...; return }
Discards(result) == ~result.isValid

\* index.ts:63-77  the update goes on to the broadcaster
Keeps(pixel) == ~Discards(validatePixelUpdate(pixel, CanvasWidth, CanvasHeight))

\* index.ts:80-83  if (!pixel.timestamp) pixel.timestamp = Date.now()
Stamped(pixel, now) ==
    IF Falsy(pixel.timestamp) THEN [pixel EXCEPT !.timestamp = JNum(now)] ELSE pixel

\* broadcaster.ts:64-69  the object that is serialised for the frontend
Message(pixel) ==
    [x |-> pixel.x, y |-> pixel.y, color |-> pixel.color, timestamp |-> pixel.timestamp]

\* the members of a sequence
Range(seq) == {seq[i] : i \in 1..Len(seq)}

\* mutant of BroadcastTo: the first send that throws ends the loop, and
\* nobody is removed
BroadcastToAborting(st, pixel, throws) ==
    LET firstBad == IF Range(st.clients) \cap throws = {} THEN Len(st.clients) + 1
                    ELSE CHOOSE i \in 1..Len(st.clients) :
                            /\ st.clients[i] \in throws
                            /\ \A j \in 1..(i - 1) : st.clients[j] \notin throws
        served == {st.clients[i] : i \in 1..(firstBad - 1)}
    IN  [st EXCEPT !.got = [f \in DOMAIN st.got |->
                              IF f \in served THEN Append(st.got[f], Message(pixel))
                              ELSE st.got[f]],
                   !.aired = Append(st.aired, pixel)]

\* broadcaster.ts:53-98  broadcast(pixel): the message is sent to each client
\* of the set in turn; a client whose send throws is removed and the loop
\* goes on. throws are the clients whose send throws this time.
BroadcastTo(st, pixel, throws) ==
    LET Stays(f) == f \notin throws
    IN  [clients |-> SelectSeq(st.clients, Stays),
         got |-> [f \in DOMAIN st.got |->
                    IF f \in Range(st.clients) \ throws
                    THEN Append(st.got[f], Message(pixel)) ELSE st.got[f]],
         cut |-> [f \in DOMAIN st.cut |->
                    IF f \in Range(st.clients) \cap throws
                    THEN Len(st.aired) + 1 ELSE st.cut[f]],
         aired |-> Append(st.aired, pixel)]

\* backendClient.ts:68-75  data.forEach: processPixelUpdate is called on the
\* elements in turn; fail[f] = k says that the k-th send to f throws
RECURSIVE ProcessAll(_, _, _, _, _)
ProcessAll(st, elems, now, fail, k) ==
    IF elems = <<>> THEN st
    ELSE IF Keeps(Head(elems))
    THEN ProcessAll(BroadcastTo(st, Stamped(Head(elems), now), {f \in DOMAIN fail : fail[f] = k}),
                    Tail(elems), now, fail, k + 1)
    ELSE ProcessAll(st, Tail(elems), now, fail, k)

\* the values Date.now() returns
DateNowValues == {5000}

\* a message on the backend socket: text that JSON.parse rejects, one
\* object, or an array of objects
Frame(json, array, elems) == [json |-> json, array |-> array, elems |-> elems]

RedAtOrigin == JPixel(JNum(0), JNum(0), JStr(<<"#", "F", "F", "0", "0", "0", "0">>),
                      JStr(<<"u", "1">>), JNum(1000))
GreenAtCorner == JPixel(JNum(999), JNum(999), JStr(<<"#", "0", "f", "0">>),
                        JStr(<<"u", "2">>), JUndefined)
BeyondX == JPixel(JNum(1000), JNum(0), JStr(<<"#", "F", "F", "0", "0", "0", "0">>),
                  JStr(<<"u", "1">>), JNum(1000))
BelowY == JPixel(JNum(0), JNum(-1), JStr(<<"#", "F", "F", "0", "0", "0", "0">>),
                 JStr(<<"u", "1">>), JNum(1000))
TextX == JPixel(JStr(<<"5">>), JNum(0), JStr(<<"#", "F", "F", "0", "0", "0", "0">>),
                JStr(<<"u", "1">>), JNum(1000))
NamedColor == JPixel(JNum(1), JNum(1), JStr(<<"r", "e", "d">>), JStr(<<"u", "1">>), JNum(1000))
BlankUser == JPixel(JNum(2), JNum(2), JStr(<<"#", "F", "F", "0", "0", "0", "0">>),
                    JStr(<<" ", " ">>), JNum(1000))
NoUser == JPixel(JNum(3), JNum(3), JStr(<<"#", "F", "F", "0", "0", "0", "0">>),
                 JUndefined, JNum(1000))

\* the messages the backend socket delivers
Frames ==
    { Frame(TRUE, TRUE, <<RedAtOrigin, BeyondX, GreenAtCorner>>),
      Frame(TRUE, TRUE, <<GreenAtCorner, RedAtOrigin>>),
      Frame(TRUE, TRUE, <<BelowY, TextX, NamedColor, BlankUser, NoUser>>),
      Frame(TRUE, TRUE, <<>>),
      Frame(TRUE, FALSE, <<RedAtOrigin>>),
      Frame(TRUE, FALSE, <<NamedColor>>),
      Frame(FALSE, FALSE, <<>>) }

\* the WebSocket objects created so far
Opened == {i \in DOMAIN socks : socks[i] # "none"}

\* backendClient.ts:48-50  onopen
SocketOpens(i) ==
    /\ ~cExited
    /\ socks[i] = "connecting"
    /\ socks' = [socks EXCEPT ![i] = "open"]
    /\ UNCHANGED <<socket, shouldReconnect, timers, feClients, fePhase, cExited,
                   frames, aired, feGot, joinAt, cutAt, probe, verdict,
                   queueVars, limiterVars, hubVars, readVars, ingestVars, exited>>

\* backendClient.ts:97-106  onclose: the connection failed, the backend
\* closed it, or close() has completed
SocketCloses(i) ==
    /\ ~cExited
    /\ socks[i] \in {"connecting", "open", "closing"}
    /\ socks' = [socks EXCEPT ![i] = "closed"]
    /\ socket' = 0
    /\ timers' = IF shouldReconnect THEN timers + 1 ELSE timers
    /\ UNCHANGED <<shouldReconnect, feClients, fePhase, cExited,
                   frames, aired, feGot, joinAt, cutAt, probe, verdict,
                   queueVars, limiterVars, hubVars, readVars, ingestVars, exited>>

\* backendClient.ts:104 and 40-45  a reconnect timer fires: connect() makes
\* a new WebSocket
ReconnectTimer ==
    /\ ~cExited
    /\ timers > 0
    /\ Cardinality(Opened) < MaxOpens
    /\ timers' = timers - 1
    /\ socks' = [socks EXCEPT ![Cardinality(Opened) + 1] = "connecting"]
    /\ socket' = Cardinality(Opened) + 1
    /\ UNCHANGED <<shouldReconnect, feClients, fePhase, cExited,
                   frames, aired, feGot, joinAt, cutAt, probe, verdict,
                   queueVars, limiterVars, hubVars, readVars, ingestVars, exited>>

\* backendClient.ts:53-89  onmessage, with processPixelUpdate
\* (index.ts:51-89) and broadcast (broadcaster.ts:53-98) for every element
OnMessage(i) ==
    /\ ~cExited
    /\ socks[i] = "open"
    /\ Len(frames) < MaxFrames
    /\ \E frame \in Frames, now \in DateNowValues :
       \E fail \in [Range(feClients) -> 0..Len(frame.elems)] :
          LET st == ProcessAll([clients |-> feClients, got |-> feGot, cut |-> cutAt,
                                aired |-> aired],
                               frame.elems, now, fail, 1)
          IN  /\ frames' = Append(frames, frame)
              /\ feClients' = st.clients
              /\ feGot' = st.got
              /\ cutAt' = st.cut
              /\ aired' = st.aired
    /\ UNCHANGED <<socks, socket, shouldReconnect, timers, fePhase, cExited, joinAt,
                   probe, verdict,
                   queueVars, limiterVars, hubVars, readVars, ingestVars, exited>>

\* index.ts:134-137  a frontend socket opens: broadcaster.addClient(ws)
FeOpen(f) ==
    /\ ~cExited
    /\ fePhase[f] = "new"
    /\ fePhase' = [fePhase EXCEPT ![f] = "open"]
    /\ feClients' = Append(feClients, f)
    /\ joinAt' = [joinAt EXCEPT ![f] = Len(aired)]
    /\ UNCHANGED <<socks, socket, shouldReconnect, timers, cExited,
                   frames, aired, feGot, cutAt, probe, verdict,
                   queueVars, limiterVars, hubVars, readVars, ingestVars, exited>>

\* index.ts:152-155  a frontend socket closes: broadcaster.removeClient(ws)
FeClose(f) ==
    /\ ~cExited
    /\ fePhase[f] = "open"
    /\ fePhase' = [fePhase EXCEPT ![f] = "closed"]
    /\ LET Others(g) == g # f IN feClients' = SelectSeq(feClients, Others)
    /\ UNCHANGED <<socks, socket, shouldReconnect, timers, cExited,
                   frames, aired, feGot, joinAt, cutAt, probe, verdict,
                   queueVars, limiterVars, hubVars, readVars, ingestVars, exited>>

\* backendClient.ts:129-137  disconnect(): the sockets after socket.close()
Disconnected(ss, sock) == IF sock = 0 THEN ss ELSE [ss EXCEPT ![sock] = "closing"]

\* mutant of Sigint: the handler returns without process.exit
SigintStaying ==
    /\ ~cExited
    /\ shouldReconnect
    /\ shouldReconnect' = FALSE
    /\ socks' = Disconnected(socks, socket)
    /\ socket' = 0
    /\ feClients' = <<>>
    /\ fePhase' = [f \in FeSockets |-> IF fePhase[f] = "open" THEN "closed" ELSE fePhase[f]]
    /\ UNCHANGED <<timers, cExited, frames, aired, feGot, joinAt, cutAt, probe, verdict,
                   queueVars, limiterVars, hubVars, readVars, ingestVars, exited>>

\* index.ts:203-214  the SIGINT handler: backendClient.disconnect(),
\* broadcaster.disconnectAll() (broadcaster.ts:114-124) and process.exit(0)
Sigint ==
    /\ ~cExited
    /\ shouldReconnect' = FALSE
    /\ socks' = Disconnected(socks, socket)
    /\ socket' = 0
    /\ feClients' = <<>>
    /\ fePhase' = [f \in FeSockets |-> IF fePhase[f] = "open" THEN "closed" ELSE fePhase[f]]
    /\ cExited' = TRUE
    /\ UNCHANGED <<timers, frames, aired, feGot, joinAt, cutAt, probe, verdict,
                   queueVars, limiterVars, hubVars, readVars, ingestVars, exited>>

\* index.ts:177-196  the consumer after main(): the frontend server listens
\* and connect() has made the first WebSocket
InitConsumerProcess ==
    /\ socks = [i \in 1..MaxOpens |-> IF i = 1 THEN "connecting" ELSE "none"]
    /\ socket = 1
    /\ shouldReconnect = TRUE
    /\ timers = 0
    /\ feClients = <<>>
    /\ fePhase = [f \in FeSockets |-> "new"]
    /\ cExited = FALSE
    /\ frames = <<>>
    /\ aired = <<>>
    /\ feGot = [f \in FeSockets |-> <<>>]
    /\ joinAt = [f \in FeSockets |-> 0]
    /\ cutAt = [f \in FeSockets |-> 0]

InitConsumer == InitConsumerProcess /\ probe = NoUpdate /\ verdict = [backend |-> None, consumer |-> None]

\* the events of the consumer's event loop
NextConsumer ==
    \/ \E i \in 1..MaxOpens : SocketOpens(i)
    \/ \E i \in 1..MaxOpens : SocketCloses(i)
    \/ ReconnectTimer
    \/ \E i \in 1..MaxOpens : OnMessage(i)
    \/ \E f \in FeSockets : FeOpen(f)
    \/ \E f \in FeSockets : FeClose(f)
    \/ Sigint

(***************************************************************************)
(* One update put to the backend's validatePixel and, as the JSON the      *)
(* backend writes to the consumer, to the consumer's validatePixelUpdate.  *)
(***************************************************************************)
\* the characters of the identities that are put to the validators
Chars(userID) ==
    CASE userID = "" -> <<>>
      [] userID = " " -> <<" ">>
      [] userID = "u1" -> <<"u", "1">>
      [] userID = " u1 " -> <<" ", "u", "1", " ">>

\* client.go:99 and backendClient.ts:59  json.Marshal of a PixelUpdate, read
\* back by JSON.parse
ToJson(pixel) ==
    JPixel(JNum(pixel.x), JNum(pixel.y), JStr(pixel.color), JStr(Chars(pixel.userID)),
           JNum(pixel.timestamp))

\* the updates put to both validators
Probes ==
    { [id |-> 0, x |-> x, y |-> y, color |-> color, userID |-> userID, timestamp |-> 1000] :
        x \in {-1, 0, 999, 1000}, y \in {-1, 0, 999, 1000},
        color \in { <<"#", "F", "F", "0", "0", "0", "0">>,
                    <<"#", "0", "0", "f", "f", "0", "9">>,
                    <<"#", "F", "0", "0">>,
                    <<"r", "e", "d">> },
        userID \in {"", " ", "u1", " u1 "} }

NoVerdict == [backend |-> None, consumer |-> None]

\* server.go:211 and index.ts:63-67  both validators are applied to the update
Validate ==
    /\ verdict = NoVerdict
    /\ verdict' =
          [backend |-> IF validatePixel(probe) = "nil" THEN "accepted" ELSE "refused",
           consumer |-> IF validatePixelUpdate(ToJson(probe), CanvasWidth, CanvasHeight).isValid
                        THEN "accepted" ELSE "refused"]
    /\ UNCHANGED <<probe, socks, socket, shouldReconnect, timers, feClients, fePhase, cExited,
                   frames, aired, feGot, joinAt, cutAt,
                   queueVars, limiterVars, hubVars, readVars, ingestVars, exited>>

(***************************************************************************)
(* The program as main starts it (clean.sh:26-58): the queue, the hub with *)
(* its flush ticker, the connections, and request handlers that enqueue.   *)
(***************************************************************************)
InitHub ==
    /\ clients = {}
    /\ broadcast = <<>>
    /\ buffer = <<>>
    /\ send = [k \in Conns |-> <<>>]
    /\ closed = [k \in Conns |-> FALSE]
    /\ pcK = [k \in Conns |-> "none"]
    /\ pcW = [k \in Conns |-> "off"]
    /\ ticks = 0
    /\ winStart = 0
    /\ sent = <<>>
    /\ got = [k \in Conns |-> <<>>]
    /\ regs = [k \in Conns |-> <<>>]
    /\ closeCalls = [k \in Conns |-> 0]
    /\ noops = {}
    /\ left = [k \in Conns |-> 0]
    /\ quiet = [k \in Conns |-> 0]
    /\ pongAge = [k \in Conns |-> 0]

InitMain ==
    /\ NewPixelQueue(QueueSize)
    /\ InitCallers
    /\ InitLimiter
    /\ InitHub
    /\ InitHandlers
    /\ exited = FALSE
    /\ InitConsumer

\* request handlers enqueue, the flush ticker starts goroutines out of
\* workers, and the hub takes batches from h.broadcast
NextPipeline(workers) ==
    \/ \E p \in Ingesters : EnqueueCall(p)
    \/ \E p \in Ingesters : EnqueueLock(p)
    \/ \E p \in Ingesters : EnqueueBody(p)
    \/ \E p \in Ingesters : EnqueueReturn(p)
    \/ FlushTick(workers)
    \/ \E c \in workers : FlushIsEmpty(c)
    \/ \E c \in workers : DequeueLock(c)
    \/ \E c \in workers : DequeueTake(c)
    \/ \E c \in workers : FlushDequeued(c)
    \/ \E c \in workers : FlushSend(c)
    \/ HubBroadcast

\* the connections in conns come and go
NextConns(conns) ==
    \/ \E k \in conns : Connect(k)
    \/ \E k \in conns : HubRegister(k)
    \/ \E k \in conns : HubUnregister(k)
    \/ \E k \in conns : ReadPumpExit(k)
    \/ \E k \in conns : WritePumpBatch(k)
    \/ \E k \in conns : WritePumpClosed(k)
    \/ \E k \in conns : WritePumpPingFails(k)

\* the peers of the connections in conns send frames or stay silent
NextRead(conns) ==
    \/ \E k \in conns : ReadPong(k)
    \/ \E k \in conns : ReadData(k)
    \/ \E k \in conns : ReadPumpTimeout(k)
    \/ Elapse

\* a flush goroutine finds the queue emptied by another one and parks
NextParked(workers) ==
    \/ \E c \in workers : DequeueWait(c)
    \/ \E c \in workers : DequeueRelock(c)

\* concurrent flush goroutines, one connection
NextFlush == NextPipeline(Consumers) \/ NextParked(Consumers) \/ NextConns({"k1"})

\* one flush goroutine at a time (it never finds the queue empty once
\* IsEmpty has said otherwise), concurrent connections
NextHub == NextPipeline({"c1"}) \/ NextConns(Conns)

\* handlers enqueue while the flush ticker goes on for ever
NextLive ==
    \/ \E p \in Ingesters : EnqueueCall(p)
    \/ \E p \in Ingesters : EnqueueLock(p)
    \/ \E p \in Ingesters : EnqueueBody(p)
    \/ \E p \in Ingesters : EnqueueReturn(p)
    \/ TickForever(Consumers)
    \/ \E c \in Consumers : FlushIsEmpty(c)
    \/ \E c \in Consumers : DequeueLock(c)
    \/ \E c \in Consumers : DequeueTake(c)
    \/ \E c \in Consumers : DequeueWait(c)
    \/ \E c \in Consumers : DequeueRelock(c)
    \/ \E c \in Consumers : FlushDequeued(c)
    \/ \E c \in Consumers : FlushSend(c)
    \/ HubBroadcast

\* fair scheduling: the ticker keeps firing, the hub keeps receiving, and
\* every goroutine that can take a step for good takes it in the end (weak
\* fairness of each step; no step has to win a race for the mutex or for
\* room in h.broadcast infinitely often)
FairLive ==
    /\ WF_vars(TickForever(Consumers))
    /\ WF_vars(HubBroadcast)
    /\ \A p \in Ingesters :
          WF_vars(EnqueueLock(p)) /\ WF_vars(EnqueueBody(p)) /\ WF_vars(EnqueueReturn(p))
    /\ \A c \in Consumers :
          /\ WF_vars(FlushIsEmpty(c))
          /\ WF_vars(DequeueLock(c))
          /\ WF_vars(DequeueTake(c))
          /\ WF_vars(DequeueWait(c))
          /\ WF_vars(DequeueRelock(c))
          /\ WF_vars(FlushDequeued(c))
          /\ WF_vars(FlushSend(c))

InitBackend == InitQueue /\ InitLimiter /\ InitHub /\ InitHandlers /\ exited = FALSE

Init == InitBackend /\ InitConsumer

SpecQueue == Init /\ [][NextQueue]_vars

SpecLimiter == Init /\ [][NextLimiter]_vars

SpecFlush == InitMain /\ [][NextFlush]_vars

SpecHub == InitMain /\ [][NextHub]_vars

\* one flush goroutine at a time and one connection
NextLoop == NextPipeline({"c1"}) \/ NextConns({"k1"})

\* The hub loop as in SpecLoop, and the pumps of a connection are scheduled
\* too: writePump takes what is in c.send or sees it closed (every write has
\* the deadline writeWait, so it returns), and once writePump has returned,
\* its deferred c.conn.Close() makes the ReadMessage of readPump fail.
\* Nothing is assumed about the peer, the request handlers or the ticker.
SpecLife ==
    /\ InitMain
    /\ [][NextLoop]_vars
    /\ WF_vars(HubBroadcast)
    /\ \A k \in Conns :
          /\ WF_vars(HubRegister(k))
          /\ WF_vars(HubUnregister(k))
          /\ WF_vars(WritePumpBatch(k))
          /\ WF_vars(WritePumpClosed(k))
          /\ WF_vars(pcW[k] = "done" /\ ReadPumpExit(k))

\* clean.sh:74-76  main installs no signal handler and calls no Shutdown:
\* the process ends when a signal kills it or when ListenAndServe returns
\* and log.Fatal calls os.Exit. Nothing is run on the way out (deferred
\* calls included), and no goroutine takes a step afterwards.
Exit ==
    /\ ~exited
    /\ exited' = TRUE
    /\ UNCHANGED <<queueVars, limiterVars, hubVars, readVars, ingestVars, consumerVars>>

\* the goroutines of the pipeline and of one connection, while the process
\* is alive
NextServing == ~exited /\ NextLoop

\* the hub loop with one connection, in a process that can end at any time
SpecExit == InitMain /\ [][NextServing \/ Exit]_vars

\* the queue, the flush goroutines and the hub under fair scheduling
SpecLive == InitMain /\ [][NextLive]_vars /\ FairLive

\* the consumer process between the backend socket and its frontend clients
SpecConsumer == Init /\ [][NextConsumer]_vars

\* every update of Probes is put to both validators
InitAgree ==
    /\ InitBackend
    /\ InitConsumerProcess
    /\ probe \in Probes
    /\ verdict = NoVerdict

SpecAgree == InitAgree /\ [][Validate]_vars

\* the ingestion endpoint in front of the rate limiter and a small queue
SpecIngest == Init /\ [][NextIngest]_vars

\* the hub loop with one connection whose peer sends frames as time passes
SpecRead == InitMain /\ [][NextLoop \/ NextRead({"k1"})]_vars

\* the same, and the hub is handed a Client it has already registered
SpecRegister == InitMain /\ [][NextLoop \/ \E k \in {"k1"} : HubRegisterAgain(k)]_vars

\* The goroutine running Hub.Run is scheduled whenever one of its channels
\* is ready, and select picks among the ready cases at random, so no ready
\* case is passed over forever. Nothing is assumed about the pumps of a
\* connection, the request handlers or the ticker.
SpecLoop ==
    /\ InitMain
    /\ [][NextLoop]_vars
    /\ WF_vars(HubBroadcast)
    /\ \A k \in Conns : WF_vars(HubRegister(k)) /\ WF_vars(HubUnregister(k))

Next == NextQueue \/ NextLimiter \/ NextFlush \/ NextHub

Spec == Init /\ [][Next]_vars

(***************************************************************************)
(* Properties of the PixelQueue.                                           *)
(***************************************************************************)
\* the places <<batch, position>> where update u was returned
Places(u) ==
    {<<b, k>> \in (1..Len(batches)) \X (1..MaxBatch) :
        k <= Len(batches[b]) /\ batches[b][k] = u}

Earlier(x, y) == x[1] < y[1] \/ (x[1] = y[1] /\ x[2] < y[2])

\* C1: FIFO under concurrency. For updates A appended before B (the order
\* in which the Enqueue calls held the mutex), if both were returned by
\* DequeueBatch then A is in an earlier batch than B, or in the same batch
\* at an earlier position; and the returned batches, concatenated in the
\* order taken, are a prefix of the enqueue order.
C1_FifoOrder ==
    /\ IsPrefix(Flatten(batches), enqOrder)
    /\ \A i, j \in 1..Len(enqOrder) :
          i < j => \A x \in Places(enqOrder[i]), y \in Places(enqOrder[j]) :
                      Earlier(x, y)

\* two producers appended in the opposite order of their calls, and the
\* updates came back in more than one batch, one of them of two updates
C1_Witness ==
    /\ Len(enqOrder) >= 3
    /\ enqOrder[1].id > enqOrder[2].id
    /\ Len(batches) >= 2
    /\ \E b \in 1..Len(batches) : Len(batches[b]) >= 2

\* C2: in every reachable state the queue holds at most maxSize updates.
C2_LengthBounded == Len(items) <= MaxSize

\* the queue is at capacity and a further Enqueue holds the mutex
C2_Witness ==
    /\ Len(items) = MaxSize
    /\ \E p \in Producers : pcP[p] = "held"

\* C3: an Enqueue that finds len(items) = maxSize returns the Full error and
\* leaves the queue exactly as it was: nothing stored, nothing evicted.
C3_FullRejects ==
    [][\A p \in Producers :
          (pcP[p] = "held" /\ pcP'[p] = "unlock" /\ Len(items) = MaxSize)
              => (errP'[p] = "full" /\ items' = items)]_vars

\* an Enqueue returned Full with the queue at capacity and its update is
\* not in the queue
C3_Witness ==
    \E p \in Producers :
        /\ pcP[p] = "unlock"
        /\ errP[p] = "full"
        /\ Len(items) = MaxSize
        /\ \A i \in 1..Len(items) : items[i] # argP[p]

\* a DequeueBatch call suspended in Wait(): parked, or woken and waiting
\* for the mutex
Suspended(c) == pcC[c] \in {"wait", "relock"}

\* C4: Enqueue never waits on a suspended DequeueBatch caller. A caller
\* suspended on the empty queue does not hold the mutex, the holder of the
\* mutex is always a goroutine inside its critical section, and when every
\* DequeueBatch caller is idle or suspended an Enqueue call in progress
\* can take its next step.
C4_EnqueueNotBlockedByWaiter ==
    /\ \A c \in Consumers : Suspended(c) => qMu # c
    /\ qMu \in Producers => pcP[qMu] \in {"held", "unlock"}
    /\ qMu \in Consumers => pcC[qMu] \in {"held", "unlock"}
    /\ ((\A c \in Consumers : pcC[c] = "idle" \/ Suspended(c))
          /\ (\E p \in Producers : pcP[p] # "idle"))
       => ENABLED (\E p \in Producers :
                      EnqueueLock(p) \/ EnqueueBody(p) \/ EnqueueReturn(p))

\* an Enqueue ran to its Full return while a DequeueBatch call is suspended
C4_Witness ==
    /\ \E c \in Consumers : Suspended(c)
    /\ \E p \in Producers : pcP[p] = "unlock" /\ errP[p] = "full"

\* C5: DequeueBatch(batchSize), batchSize >= 1, never returns an empty
\* batch. On an empty queue it suspends (nothing is taken); on a non-empty
\* queue it removes and returns exactly the first min(batchSize, len)
\* items in order and leaves the rest in order, without waiting for more.
C5_DequeueBatch ==
    /\ [](\A c \in Consumers : pcC[c] = "unlock" => Len(batchC[c]) >= 1)
    /\ [][\A c \in Consumers :
            /\ (pcC[c] = "held" /\ pcC'[c] = "unlock") =>
                  LET n == Min(sizeC[c], Len(items))
                  IN  /\ n >= 1
                      /\ batchC'[c] = SubSeq(items, 1, n)
                      /\ batches' = Append(batches, SubSeq(items, 1, n))
                      /\ items' = SubSeq(items, n + 1, Len(items))
            /\ (pcC[c] = "held" /\ Len(items) = 0 /\ pcC'[c] # "held") =>
                  (pcC'[c] = "wait" /\ items' = items /\ batches' = batches)
            /\ (pcC[c] = "held" /\ Len(items) # 0 /\ pcC'[c] # "held") =>
                  pcC'[c] = "unlock"]_vars

\* a call that had been suspended returns fewer updates than it asked for
C5_Witness ==
    \E c \in Consumers :
        /\ pcC[c] = "unlock"
        /\ Len(batchC[c]) >= 1
        /\ Len(batchC[c]) < sizeC[c]
        /\ Len(batches) >= 2

(***************************************************************************)
(* Properties of the RateLimiter.                                          *)
(***************************************************************************)
\* caller a takes the step of Allow that decides, writes and returns
Decides(a) == pcA[a] = "decide" /\ pcA'[a] = "idle"

Abs(n) == IF n < 0 THEN -n ELSE n

\* C6: Allow(identity) returns true for an identity with no entry and
\* records the call's time; for an identity with an entry it returns true
\* and overwrites the entry with the call's time exactly when
\* (call time - last-accepted) >= cooldown, and returns false otherwise.
C6_AllowContract ==
    [][\A a \in Allowers : Decides(a) =>
          LET u == userA[a]
              t == nowA[a]
          IN  /\ lastAllow'.user = u /\ lastAllow'.at = t
              /\ IF u \notin DOMAIN lastUpdate
                 THEN lastAllow'.ok /\ u \in DOMAIN lastUpdate' /\ lastUpdate'[u] = t
                 ELSE IF t - lastUpdate[u] >= Cooldown
                      THEN lastAllow'.ok /\ lastUpdate'[u] = t
                      ELSE ~lastAllow'.ok /\ lastUpdate'[u] = lastUpdate[u]]_vars

\* an identity was accepted a second time, exactly one cooldown after its
\* first accepted call
C6_Witness ==
    \E u \in Users :
        /\ lastAllow.user = u /\ lastAllow.ok
        /\ Len(accepted[u]) = 2
        /\ accepted[u][2] = accepted[u][1] + Cooldown
        /\ lastAllow.at = accepted[u][2]
        /\ lastUpdate[u] = accepted[u][2]

\* C7: an Allow call that returns false leaves the whole map unchanged, so
\* denied attempts neither reset nor extend the cooldown: after any number
\* of them the next call at or after last-accepted + cooldown returns true.
C7_DeniedLeavesMap ==
    [][\A a \in Allowers : Decides(a) =>
          /\ ~lastAllow'.ok => lastUpdate' = lastUpdate
          /\ (/\ rejects[userA[a]] >= 1
              /\ userA[a] \in DOMAIN lastUpdate
              /\ nowA[a] >= lastUpdate[userA[a]] + Cooldown) => lastAllow'.ok]_vars

\* two calls of an identity were denied and its next call, exactly one
\* cooldown after the accepted one, was accepted
C7_Witness ==
    \E u \in Users :
        /\ lastAllow.user = u /\ lastAllow.ok
        /\ lastAllow.after >= 2
        /\ Len(accepted[u]) = 2
        /\ lastAllow.at = accepted[u][1] + Cooldown

\* C8 (the claim as stated): any two Allow calls of the same identity that
\* both returned true sampled their times at least the cooldown apart.
C8_AcceptedApart ==
    \A u \in Users : \A i, j \in 1..Len(accepted[u]) :
        i < j => Abs(accepted[u][j] - accepted[u][i]) >= Cooldown

\* C9: the entries of distinct identities are independent. A step of
\* Allow(u) leaves the entry (present or absent, and its time) of every
\* other identity as it was, reads only u's entry, and its result is
\* decided by u's entry and the call's time alone.
C9_IdentitiesIndependent ==
    [][\A a \in Allowers :
          /\ (pcA[a] = "lock" /\ pcA'[a] = "decide") =>
                /\ lastUpdate' = lastUpdate
                /\ readA'[a] = Lookup(lastUpdate, userA[a])
          /\ Decides(a) =>
                /\ \A v \in Users \ {userA[a]} :
                      Lookup(lastUpdate', v) = Lookup(lastUpdate, v)
                /\ lastAllow'.ok =
                      (\/ userA[a] \notin DOMAIN lastUpdate
                       \/ nowA[a] - lastUpdate[userA[a]] >= Cooldown)]_vars

\* u2 was accepted at a time at which u1, denied meanwhile, is still in
\* its cooldown, and each identity keeps its own time
C9_Witness ==
    /\ lastAllow.user = "u2" /\ lastAllow.ok
    /\ rejects["u1"] >= 1
    /\ DOMAIN lastUpdate = {"u1", "u2"}
    /\ lastUpdate["u2"] = lastAllow.at
    /\ lastUpdate["u1"] < lastUpdate["u2"]
    /\ lastAllow.at - lastUpdate["u1"] < Cooldown

\* the cleanup goroutine takes the step that sweeps the map
Sweeps == pcS = "held" /\ pcS' = "wait"

\* C10: a sweep removes every identity whose last-accepted time is more
\* than the retention threshold before the sweep's time and no other; an
\* identity removed by a sweep is accepted at its next Allow like a
\* first-seen one and records that call's time, and the Allow that follows
\* (before any later sweep removes the identity again), sampled less than
\* one cooldown after that time, is denied.
C10_SweepRemovesStale ==
    /\ [][Sweeps =>
            /\ DOMAIN lastUpdate' =
                  {u \in DOMAIN lastUpdate : clock - lastUpdate[u] <= Retention}
            /\ \A u \in DOMAIN lastUpdate' : lastUpdate'[u] = lastUpdate[u]]_vars
    /\ [][\A a \in Allowers : Decides(a) =>
            /\ phase[userA[a]] = "removed" =>
                  /\ lastAllow'.ok
                  /\ lastUpdate'[userA[a]] = nowA[a]
            /\ (/\ phase[userA[a]] = "readmitted"
                /\ nowA[a] - lastUpdate[userA[a]] < Cooldown) => ~lastAllow'.ok]_vars
    /\ [](\A u \in Users : phase[u] = "removed" => u \notin DOMAIN lastUpdate)

\* a sweep removed u1, idle for more than the threshold, and kept u2, idle
\* for exactly the threshold; u1's next call was accepted and the call after
\* it denied
C10_Witness ==
    /\ lastSweep.removed = {"u1"}
    /\ lastSweep.kept = {"u2"}
    /\ lastSweep.at - lastUpdate["u2"] = Retention
    /\ phase["u1"] = "denied"
    /\ lastAllow.user = "u1" /\ ~lastAllow.ok
    /\ Len(accepted["u1"]) = 2

\* C11: sweep and Allow are mutually exclusive on the map. While an Allow
\* call is between its read and its write of an entry it holds rl.mu, no
\* sweep and no other Allow call is inside its critical section, and the
\* entry is still what the call read; the holder of rl.mu is never
\* suspended: its next step, which releases the lock, is enabled.
C11_SweepAllowExclusive ==
    /\ \A a \in Allowers : pcA[a] = "decide" =>
          /\ rlMu = a
          /\ pcS # "held"
          /\ \A b \in Allowers \ {a} : pcA[b] # "decide"
          /\ readA[a] = Lookup(lastUpdate, userA[a])
    /\ pcS = "held" => rlMu = "cleanup"
    /\ rlMu \in Allowers => ENABLED AllowDecide(rlMu)
    /\ rlMu = "cleanup" => ENABLED CleanupBody
    /\ rlMu = None => /\ \A a \in Allowers : pcA[a] = "lock" => ENABLED AllowLock(a)
                      /\ pcS = "lock" => ENABLED CleanupLock

\* an Allow call has read an entry that is older than the retention
\* threshold and not yet written it, while the sweep waits for the lock
C11_Witness ==
    \E a \in Allowers :
        /\ pcA[a] = "decide"
        /\ readA[a].exists
        /\ clock - readA[a].lastTime > Retention
        /\ pcS = "lock"


(***************************************************************************)
(* Claims about the flush goroutines and the hub                           *)
(***************************************************************************)
InBatch(u, batch) == \E i \in 1..Len(batch) : batch[i] = u

\* the updates enqueued since the last tick of the flush ticker
Window == {enqOrder[i] : i \in (winStart + 1)..Len(enqOrder)}

\* C12: size-triggered flush. With a registered connection and no tick of
\* the flush ticker so far, once the Enqueue calls have returned: fewer than
\* the batch size enqueued means nothing was broadcast, and exactly the batch
\* size enqueued means exactly one batch was broadcast, holding all of them
\* in enqueue order.
C12_SizeFlush ==
    (/\ ticks = 0
     /\ clients # {}
     /\ \A p \in Ingesters : pcP[p] = "idle")
    => /\ Len(enqOrder) < BatchSize => sent = <<>>
       /\ Len(enqOrder) = BatchSize => sent = <<enqOrder>>

\* C13: time-triggered flush. When a tick ends a window in which fewer
\* updates than the batch size were enqueued, no batch taken from the queue
\* holds some of them without the others: they are not split.
C13_TimeFlush ==
    [][(ticks' > ticks /\ Cardinality(Window) < BatchSize)
       => \A b \in 1..Len(batches) : \A u, v \in Window :
             InBatch(u, batches[b]) <=> InBatch(v, batches[b])]_vars


\* C14: every batch placed on h.broadcast, and so every batch put into a
\* mailbox, holds at least one update and at most the batch size.
C14_BatchSizeBounded ==
    /\ \A i \in 1..Len(sent) : Len(sent[i]) >= 1 /\ Len(sent[i]) <= BatchSize
    /\ \A k \in Conns : \A i \in 1..Len(got[k]) :
          Len(got[k][i]) >= 1 /\ Len(got[k][i]) <= BatchSize

\* the queue held more than a batch: a full batch, then the rest
C14_Witness ==
    /\ Len(sent) = 2
    /\ Len(sent[1]) = BatchSize
    /\ Len(sent[2]) = 1
    /\ Len(got["k1"]) = 2

NoRepeats(s) == \A i, j \in 1..Len(s) : i # j => s[i] # s[j]

\* C15: no update is broadcast twice. The batches placed on h.broadcast
\* share no update, the batches put into one mailbox share no update, and
\* every batch taken from the queue has been placed on h.broadcast exactly
\* once or is in the hands of the goroutine about to place it.
C15_NoDoubleBroadcast ==
    /\ NoRepeats(Flatten(sent))
    /\ \A k \in Conns : NoRepeats(Flatten(got[k]))
    /\ \A b \in 1..Len(batches) :
          \/ Cardinality({i \in 1..Len(sent) : sent[i] = batches[b]}) = 1
          \/ /\ \A i \in 1..Len(sent) : sent[i] # batches[b]
             /\ \E c \in Consumers : pcC[c] \in {"unlock", "send"} /\ batchC[c] = batches[b]

\* two batches were taken, placed and delivered to the connection
C15_Witness ==
    /\ Len(batches) = 2
    /\ sent = batches
    /\ got["k1"] = sent
    /\ Len(sent[1]) = 1

\* the place of an enqueued update in the enqueue order
Pos(u) == CHOOSE i \in 1..Len(enqOrder) : enqOrder[i] = u

\* C16: the updates a connection received, its batches concatenated in
\* arrival order, are in enqueue order.
C16_DeliveredInEnqueueOrder ==
    \A k \in Conns :
        LET r == Flatten(got[k])
        IN  \A i, j \in 1..Len(r) : i < j => Pos(r[i]) < Pos(r[j])


\* a step of the hub's broadcast case: a batch leaves h.broadcast
BroadcastStep == Len(broadcast') < Len(broadcast)

\* C17: slow-consumer isolation. In a broadcast step a registered
\* connection whose mailbox is full is removed and its mailbox closed, with
\* nothing put into it; a registered connection whose mailbox has room gets
\* the batch at the end of its mailbox and stays registered and open,
\* whatever the state of the other connections.
C17_SlowConsumerIsolation ==
    [][BroadcastStep =>
         \A k \in clients :
             IF Len(send[k]) >= MailboxCap
             THEN /\ k \notin clients'
                  /\ closed'[k]
                  /\ send'[k] = send[k]
             ELSE /\ k \in clients'
                  /\ closed'[k] = closed[k]
                  /\ send'[k] = Append(send[k], Head(broadcast))
                  /\ got'[k] = Append(got[k], Head(broadcast))]_vars

\* one connection has been evicted with a full mailbox while the other got
\* that batch
C17_Witness ==
    /\ closed["k1"]
    /\ Len(send["k1"]) = MailboxCap
    /\ "k2" \in clients
    /\ Len(got["k2"]) > Len(got["k1"])
    /\ pcK["k1"] = "open"

\* C18: the hub loop never blocks on a receiver. Whatever the mailboxes
\* hold, a batch waiting in h.broadcast can be taken and a goroutine blocked
\* sending on h.register or h.unregister can be served; and every such
\* message is eventually consumed by the loop.
C18_HubNeverBlocks ==
    /\ [](Len(broadcast) > 0 => ENABLED HubBroadcast)
    /\ \A k \in Conns :
          /\ [](pcK[k] = "register" => ENABLED HubRegister(k))
          /\ [](pcK[k] = "unregister" => ENABLED HubUnregister(k))
          /\ (pcK[k] = "register") ~> (pcK[k] # "register")
          /\ (pcK[k] = "unregister") ~> (pcK[k] = "gone")
    /\ \A n \in 1..MaxEnq :
          (Len(sent) >= n) ~> (Len(sent) - Len(broadcast) >= n)

\* a batch waits in h.broadcast while the mailbox of the registered
\* connection is full
C18_Witness ==
    /\ Len(broadcast) > 0
    /\ clients = {"k1"}
    /\ Len(send["k1"]) = MailboxCap

\* C19: registration is all-or-nothing. In a broadcast step every
\* registered connection either has the batch appended and stays registered,
\* or is removed with its mailbox closed; and in no step does the mailbox of
\* a connection that is not registered grow.
C19_AllOrNothing ==
    [][/\ BroadcastStep =>
            \A k \in clients :
                \/ /\ send'[k] = Append(send[k], Head(broadcast))
                   /\ k \in clients'
                \/ /\ send'[k] = send[k]
                   /\ k \notin clients'
                   /\ closed'[k]
       /\ \A k \in Conns :
            Len(send'[k]) > Len(send[k]) => BroadcastStep /\ k \in clients]_vars

\* a batch was delivered to the one registered connection while the other
\* was waiting to be registered
C19_Witness ==
    /\ pcK["k2"] = "register"
    /\ clients = {"k1"}
    /\ Len(got["k1"]) >= 1
    /\ got["k2"] = <<>>


\* C20: Register is idempotent. Receiving from h.register a connection
\* that is already registered changes neither the registered set nor any
\* mailbox, and in every later broadcast step the connection's mailbox grows
\* by one batch, no batch being put into it twice.
C20_RegisterIdempotent ==
    /\ [][\A k \in Conns :
             (Len(regs'[k]) > Len(regs[k]) /\ k \in clients)
             => clients' = clients /\ send' = send /\ closed' = closed]_vars
    /\ [][BroadcastStep => \A k \in Conns : Len(got'[k]) <= Len(got[k]) + 1]_vars
    /\ [](\A k \in Conns : NoRepeats(got[k]))

\* a connection registered twice has been given a batch after that
C20_Witness ==
    /\ Len(regs["k1"]) = 2
    /\ Len(got["k1"]) > regs["k1"][2]
    /\ "k1" \in clients


\* a step of the hub's unregister case for connection k
UnregisterStep(k) == pcK[k] = "unregister" /\ pcK'[k] = "gone"

\* C21: the unregister case removes a registered connection from the set
\* and closes its mailbox, once; for a connection that is not in the set it
\* changes neither the set nor any mailbox and closes nothing. No other
\* connection is touched either way.
C21_Unregister ==
    [][\A k \in Conns : UnregisterStep(k) =>
          /\ IF k \in clients
             THEN /\ clients' = clients \ {k}
                  /\ closed'[k]
                  /\ closeCalls'[k] = 1
             ELSE /\ clients' = clients
                  /\ closed'[k] = closed[k]
                  /\ closeCalls'[k] = closeCalls[k]
          /\ send' = send
          /\ \A j \in Conns \ {k} : closed'[j] = closed[j] /\ closeCalls'[j] = closeCalls[j]]_vars

\* one connection was unregistered while registered, the other after the
\* hub had evicted it
C21_Witness ==
    /\ pcK = [k \in Conns |-> "gone"]
    /\ noops = {"k1"}
    /\ closeCalls = [k \in Conns |-> 1]


\* C22: closed is terminal. Once the mailbox of a connection has been
\* closed (by the unregister case or by eviction) the connection stays
\* closed, is never in the registered set again, and nothing more is put
\* into its mailbox.
C22_ClosedIsTerminal ==
    /\ [](\A k \in Conns : closed[k] => k \notin clients)
    /\ [][\A k \in Conns : closed[k] =>
             /\ closed'[k]
             /\ k \notin clients'
             /\ got'[k] = got[k]
             /\ Len(send'[k]) <= Len(send[k])]_vars

\* a batch was delivered to the other connection after this one had been
\* closed and its pumps had ended
C22_Witness ==
    /\ closed["k1"]
    /\ pcK["k1"] = "gone"
    /\ pcW["k1"] = "done"
    /\ got["k1"] = <<>>
    /\ regs["k1"] # <<>>
    /\ Len(got["k2"]) >= 1
    /\ "k2" \in clients


\* C23: once the write pump has ended on a failed write, or the read pump
\* has ended on a read error, the connection is eventually out of the
\* registered set with its mailbox closed and both pumps ended.
C23_FaultLeadsToUnregister ==
    \A k \in Conns :
        (pcW[k] = "done" \/ pcK[k] = "unregister")
        ~> (/\ k \notin clients
            /\ closed[k]
            /\ pcW[k] = "done"
            /\ pcK[k] = "gone")

\* the write pump has ended on a failed write while the connection is
\* registered, its mailbox open and its read pump still reading
C23_Witness ==
    /\ pcW["k1"] = "done"
    /\ pcK["k1"] = "open"
    /\ "k1" \in clients
    /\ ~closed["k1"]
    /\ Len(send["k1"]) > 0

(***************************************************************************)
(* C24  Inbound frames and the inactivity deadline                         *)
(***************************************************************************)
\* ReadMessage fails with a timeout
TimeoutStep(k) == pcK[k] = "open" /\ left[k] = 0 /\ pcK'[k] = "unregister"

InGrid(pixel) == pixel.x \in 0..999 /\ pixel.y \in 0..999

ColourToken(color) ==
    /\ DOMAIN color = 1..7
    /\ color[1] = "#"
    /\ \A i \in DOMAIN color \ {1} : color[i] \in HexDigits

WellFormed(pixel) == InGrid(pixel) /\ pixel.userID # "" /\ ColourToken(pixel.color)

\* the times the server clock has shown so far, in milliseconds
ServerTimes == {currentTimeMillis(t) : t \in 0..clock}

\* the handler h moves from one step of handlePixelUpdate to another
Moves(h, from, to) == pcH[h] = from /\ pcH'[h] = to

\* the requests answered so far with one of the statuses in codes
Answered(codes) == {i \in 1..Len(log) : log[i].status \in codes}

\* the request numbered i has been appended to the queue
Appended(i) == \E j \in 1..Len(enqOrder) : enqOrder[j].id = i

\* C25: a handler goes through validation, Allow, the timestamp and Enqueue
\* in this order; a request that fails validation never calls Allow and
\* leaves the limiter's map as it is, and a request Allow rejected never
\* calls Enqueue.
C25_IngestionOrder ==
    /\ [](\A i \in 1..Len(log) :
             /\ log[i].enq # None => log[i].allow = "true"
             /\ log[i].status \in {400, 405} => log[i].allow = None /\ log[i].enq = None)
    /\ [](\A h \in Handlers : pcH[h] # "idle" => WellFormed(reqH[h]))
    /\ [][\A h \in Handlers :
             /\ pcH'[h] # pcH[h] =>
                   \/ Moves(h, "idle", "allow")
                   \/ Moves(h, "allow", "stamp") /\ log'[reqH[h].id].allow = "true"
                   \/ Moves(h, "allow", "idle") /\ log'[reqH[h].id].allow = "false"
                   \/ Moves(h, "stamp", "save") /\ reqH'[h].timestamp \in ServerTimes
                   \/ Moves(h, "save", "enqueue")
                   \/ Moves(h, "enqueue", "idle") /\ reqH[h].timestamp \in ServerTimes
             /\ (Len(log') > Len(log) /\ pcH' = pcH) =>
                   /\ log'[Len(log')].status \in {400, 405}
                   /\ lastUpdate' = lastUpdate]_vars

\* one request was refused by validation, one accepted and one of the same
\* identity rejected by the rate limiter
C25_Witness ==
    /\ Answered({400}) # {}
    /\ Answered({200}) # {}
    /\ \E i \in Answered({429}) : log[i].allow = "false" /\ log[i].enq = None
    /\ DOMAIN lastUpdate = {"u1"}

\* C26: every update in the queue has x and y in [0, 999], a non-empty
\* identity, a well-formed colour token and a timestamp the server assigned.
C26_QueuedUpdatesValid ==
    \A i \in 1..Len(items) :
        /\ WellFormed(items[i])
        /\ items[i].timestamp \in ServerTimes

\* the queue holds two updates, one of them stamped after the clock moved
C26_Witness ==
    /\ Len(items) = 2
    /\ items[1].userID # items[2].userID
    /\ \E i \in 1..2 : items[i].timestamp > 0

\* C27: a request that passed validation and has been answered got 200
\* exactly when its update was appended to the queue, 429 exactly when Allow
\* returned false, and 503 exactly when Allow returned true and Enqueue
\* returned the full error; an update that was not accepted is not in the
\* queue, and a request without an answer is still with its handler.
C27_ThreeOutcomes ==
    \A i \in 1..Len(log) :
        /\ log[i].status \in {0, 200, 400, 405, 429, 503}
        /\ log[i].status = 200 <=> Appended(i)
        /\ log[i].status = 200 <=> log[i].enq = "nil"
        /\ log[i].status = 429 <=> log[i].allow = "false"
        /\ log[i].status = 503 <=> (log[i].allow = "true" /\ log[i].enq = "full")
        /\ log[i].status # 200 => \A j \in 1..Len(items) : items[j].id # i
        /\ log[i].status = 0 <=> \E h \in Handlers : pcH[h] # "idle" /\ reqH[h].id = i

\* two requests were accepted and a third found the queue full
C27_Witness ==
    /\ Answered({200}) # {}
    /\ \E i \in Answered({503}) : ~Appended(i) /\ log[i].allow = "true"
    /\ Len(items) = maxSize

\* C28: whatever SavePixel returns, the handler goes on to Enqueue with the
\* same update, and the answer of a request whose save failed is 200 when
\* Enqueue took the update and 503 when the queue was full.
C28_SaveFailureIgnored ==
    /\ [](\A i \in 1..Len(log) :
             (log[i].save = "error" /\ log[i].status # 0) =>
                 /\ log[i].enq # None
                 /\ log[i].status = IF log[i].enq = "nil" THEN 200 ELSE 503)
    /\ [][\A h \in Handlers :
             (pcH[h] = "save" /\ pcH'[h] # "save") =>
                 /\ pcH'[h] = "enqueue"
                 /\ reqH'[h] = reqH[h]
                 /\ items' = items
                 /\ log'[reqH[h].id].save \in {"nil", "error"}
                 /\ log'[reqH[h].id].status = 0]_vars

\* an update whose save failed was accepted, and another whose save failed
\* found the queue full
C28_Witness ==
    /\ \E i \in Answered({200}) : log[i].save = "error" /\ Appended(i)
    /\ \E i \in Answered({503}) : log[i].save = "error"

\* C29: the timestamps of the updates in the queue are non-decreasing from
\* the head on, also for updates of concurrent requests.
C29_TimestampsOrdered ==
    \A i, j \in 1..Len(items) :
        i < j => items[i].timestamp <= items[j].timestamp

(***************************************************************************)
(* C30  The consumers of the queue                                         *)
(***************************************************************************)
\* the goroutine c is between the call of DequeueBatch and its return:
\* waiting for q.mu, holding it, or parked in q.notEmpty.Wait()
InDequeueBatch(c) == pcC[c] \in {"lock", "held", "wait", "relock", "unlock"}

\* C30: at any time at most one goroutine is executing or suspended in
\* DequeueBatch.
C30_SingleConsumer == Cardinality({c \in Consumers : InDequeueBatch(c)}) <= 1

(***************************************************************************)
(* C31  Shutdown                                                           *)
(***************************************************************************)
\* C31: once the process has shut down, no update is enqueued any more, the
\* batches that were on their way have been delivered (none is left on
\* h.broadcast or with a flush goroutine), and the mailbox of every
\* connection that was registered has been closed.
C31_ShutdownReleases ==
    /\ [][exited => enqOrder' = enqOrder]_vars
    /\ [](exited =>
            /\ broadcast = <<>>
            /\ \A c \in Consumers : batchC[c] = <<>>
            /\ \A k \in Conns : pcK[k] \notin {"none", "register"} => closed[k])

(***************************************************************************)
(* C32, C33  What the frontend clients are sent                            *)
(***************************************************************************)
\* the update passes validatePixelUpdate for the configured canvas
Passes(pixel) == validatePixelUpdate(pixel, CanvasWidth, CanvasHeight).isValid

\* an update without its timestamp, which processPixelUpdate may fill in
Sent(pixel) == [x |-> pixel.x, y |-> pixel.y, color |-> pixel.color]

\* the passing updates of the messages fs, message after message and in the
\* order of each batch
RECURSIVE Due(_)
Due(fs) ==
    IF fs = <<>> THEN <<>>
    ELSE Due(SubSeq(fs, 1, Len(fs) - 1)) \o SelectSeq(fs[Len(fs)].elems, Passes)

\* C32: no update that fails validatePixelUpdate is broadcast; the updates
\* broadcast are exactly the passing updates of the messages received, in
\* the order of their batch; no client is sent anything else than the
\* updates broadcast since it joined, in that order, and every client in
\* the client set has been sent all of them.
C32_ValidOnlyInOrder ==
    /\ \A n \in 1..Len(aired) : Passes(aired[n])
    /\ Len(aired) = Len(Due(frames))
    /\ \A n \in 1..Len(aired) : Sent(aired[n]) = Sent(Due(frames)[n])
    /\ \A f \in FeSockets :
          /\ Len(feGot[f]) <= Len(aired) - joinAt[f]
          /\ \A n \in 1..Len(feGot[f]) : feGot[f][n] = Message(aired[joinAt[f] + n])
    /\ \A f \in Range(feClients) : Len(feGot[f]) = Len(aired) - joinAt[f]

\* a batch with a failing update between two passing ones has been
\* processed while a client was connected, and that client was sent the two
C32_Witness ==
    \E f \in Range(feClients), n \in 1..Len(frames) :
        /\ Len(frames[n].elems) = 3
        /\ ~Passes(frames[n].elems[2])
        /\ Len(feGot[f]) >= 2
        /\ Len(aired) < Len(frames[1].elems) + Len(frames[Len(frames)].elems)

\* C33: a client whose send failed is out of the client set and has been
\* sent nothing since, and in every step each client that stays in the
\* client set is sent every update broadcast in that step, whatever happens
\* to the sends to the others.
C33_FailedClientRemoved ==
    /\ [](\A f \in FeSockets :
            cutAt[f] > 0 =>
                /\ f \notin Range(feClients)
                /\ Len(feGot[f]) = cutAt[f] - 1 - joinAt[f])
    /\ [][\A g \in Range(feClients') \cap Range(feClients) :
            /\ Len(feGot'[g]) = Len(feGot[g]) + (Len(aired') - Len(aired))
            /\ \A n \in (Len(aired) + 1)..Len(aired') :
                  feGot'[g][n - joinAt[g]] = Message(aired'[n])]_vars

\* the send to one client failed, another client is still in the set, was
\* sent the update that failed for the first, and updates after it
C33_Witness ==
    \E f, g \in FeSockets :
        /\ cutAt[f] > 0
        /\ g \in Range(feClients)
        /\ joinAt[g] < cutAt[f]
        /\ Len(aired) > cutAt[f]
        /\ feGot[g][cutAt[f] - joinAt[g]] = Message(aired[cutAt[f]])
        /\ Len(feGot[g]) = Len(aired) - joinAt[g]

(***************************************************************************)
(* C34  disconnect()                                                       *)
(***************************************************************************)
\* C34: once disconnect() has been called no new WebSocket to the backend is
\* created, also when a reconnect timer was pending at the call.
C34_NoReconnectAfterDisconnect ==
    [][~shouldReconnect => Opened' \subseteq Opened]_vars

\* disconnect() has been called while a reconnect timer was pending
C34_Witness == ~shouldReconnect /\ timers > 0

(***************************************************************************)
(* C35  Eviction and unregister together                                   *)
(***************************************************************************)
\* C35: whatever the order of broadcasts, evictions and unregister requests,
\* no batch is put into a mailbox that has been closed and no mailbox is
\* closed twice; when the hub has evicted a connection, the unregister
\* request of that connection closes nothing, so its mailbox has been closed
\* exactly once.
C35_ClosedOnceNoSendAfter ==
    /\ [](\A k \in Conns : closeCalls[k] <= 1)
    /\ [][\A k \in Conns :
             /\ closed[k] => got'[k] = got[k] /\ Len(send'[k]) <= Len(send[k])
             /\ UnregisterStep(k) /\ closed[k] =>
                    closeCalls[k] = 1 /\ closeCalls'[k] = 1 /\ k \in noops']_vars

\* a connection was evicted by the hub on a batch that the other connection
\* received, and its own unregister request was handled afterwards
C35_Witness ==
    \E k, j \in Conns :
        /\ k \in noops
        /\ pcK[k] = "gone"
        /\ closeCalls[k] = 1
        /\ j \in clients
        /\ Len(got[j]) > Len(got[k])

(***************************************************************************)
(* C36  Conservation of updates in the queue                               *)
(***************************************************************************)
\* the positions of update u in the queue
Queued(u) == {i \in 1..Len(items) : items[i] = u}

\* C36: every successfully enqueued update is either in the queue, once,
\* or in the batch returned by one DequeueBatch call, once, and never both;
\* nothing else is in the queue or in a batch.
C36_NoLossNoDuplicate ==
    /\ \A n \in 1..Len(enqOrder) :
          Cardinality(Queued(enqOrder[n])) + Cardinality(Places(enqOrder[n])) = 1
    /\ \A i \in 1..Len(items) : \E n \in 1..Len(enqOrder) : items[i] = enqOrder[n]
    /\ \A b \in 1..Len(batches) : \A i \in 1..Len(batches[b]) :
          \E n \in 1..Len(enqOrder) : batches[b][i] = enqOrder[n]
    /\ Len(enqOrder) = Len(items) + Len(Flatten(batches))

\* two batches have been returned, an update is still queued, and two
\* goroutines are inside DequeueBatch at the same time
C36_Witness ==
    /\ Len(batches) >= 2
    /\ items # <<>>
    /\ Cardinality({c \in Consumers : InDequeueBatch(c)}) >= 2

(***************************************************************************)
(* C37  Every enqueued update reaches h.broadcast                          *)
(***************************************************************************)
\* the update numbered id has been appended to the queue
Enqueued(id) == \E n \in 1..Len(enqOrder) : enqOrder[n].id = id

\* the update numbered id is in a batch that was placed on h.broadcast
Placed(id) == \E b \in 1..Len(sent) : \E i \in 1..Len(sent[b]) : sent[b][i].id = id

\* C37: while the ticker keeps firing and the goroutines are scheduled
\* fairly, every update appended to the queue is eventually in a batch
\* placed on h.broadcast, also when a goroutine is parked in DequeueBatch.
C37_EnqueuedEventuallyPlaced ==
    \A id \in 1..MaxEnq : Enqueued(id) ~> Placed(id)

\* a goroutine is parked on the empty queue while every update enqueued so
\* far, more than one batch of them, has been placed on h.broadcast
C37_Witness ==
    /\ \E c \in Consumers : pcC[c] = "wait"
    /\ Len(sent) >= 2
    /\ \A id \in 1..MaxEnq : Enqueued(id) => Placed(id)
    /\ items = <<>>

(***************************************************************************)
(* C38  QueueFull after the rate limiter                                   *)
(***************************************************************************)
\* the step in which handler h answers 503
Full503(h) ==
    /\ pcH[h] = "enqueue"
    /\ pcH'[h] = "idle"
    /\ log'[reqH[h].id].status = 503

\* Allow lets a call of userID at time now pass, given the map m
Admits(m, userID, now) == AllowOutcome(m, userID, now, Lookup(m, userID)).ok

C39_SaveBeforeEnqueue ==
    /\ [](\A i \in 1..Len(log) :
             /\ log[i].enq # None => log[i].save # None
             /\ Appended(i) => log[i].save # None
             /\ log[i].status = 503 =>
                   /\ log[i].save # None
                   /\ ~Appended(i)
                   /\ \A j \in 1..Len(items) : items[j].id # i)
    /\ [][\A h \in Handlers :
             pcH'[h] = "enqueue" /\ pcH[h] # "enqueue" =>
                 /\ pcH[h] = "save"
                 /\ log[reqH[h].id].save = None
                 /\ log'[reqH[h].id].save # None
                 /\ log'[reqH[h].id].enq = None]_vars

\* an update whose save succeeded was rejected as full, so it is saved but
\* was never enqueued, while another was saved and enqueued
C39_Witness ==
    /\ \E i \in Answered({503}) : log[i].save = "nil" /\ ~Appended(i)
    /\ \E i \in Answered({200}) : log[i].save = "nil" /\ Appended(i)

(***************************************************************************)
(* C40  The two validators                                                 *)
(***************************************************************************)
\* C40: an update that the backend's validatePixel accepts also passes the
\* consumer's validatePixelUpdate for the 1000 x 1000 canvas.
C40_ValidatorsAgree ==
    verdict.backend = "accepted" => verdict.consumer = "accepted"

====
